---- MODULE Spec2Model ----
(***************************************************************************)
(* A model of the SVG template field engine of docsMakerBackend:           *)
(*   - api/watermark.py    WaterMark.add_watermark / remove_watermark      *)
(*   - api/serializers.py  PurchasedTemplateSerializer (test -> paid)      *)
(*   - api/views.py        PurchasedTemplateViewSet.get_svg                *)
(*   - api/svg_parser.py   parse_svg_to_form_fields                        *)
(*   - api/svg_updater.py  update_svg_from_field_updates and its cache     *)
(*                                                                         *)
(* Text is modelled as a sequence of lexemes (TLA+ strings are atomic), so *)
(* that concatenation, splitting, replacing and prefix tests are computed  *)
(* on the sequence the way the code computes them on characters.           *)
(***************************************************************************)
EXTENDS Integers, Sequences, FiniteSets, TLC

VARIABLES
    wmDoc, wmAdded, wmRemoved, wmPc,      \* watermark functions applied to one document
    pt, balance, txs, resp,               \* the purchased-document store, the wallet, the last response
    pIn, pOut, pPc,                       \* the parser applied to one document
    cache, schema, schemaId, calls, ncalls,  \* the update engine, its cache and the caller's schema object
    dIn, dOut, dPc,                       \* the dependency evaluator applied to one expression
    procs                                 \* concurrent calls of the update engine

wmVars  == <<wmDoc, wmAdded, wmRemoved, wmPc>>
docVars == <<pt, balance, txs, resp>>
parVars == <<pIn, pOut, pPc>>
updVars == <<cache, schema, schemaId, calls, ncalls>>
depVars == <<dIn, dOut, dPc>>
conVars == <<procs>>
vars    == <<wmVars, docVars, parVars, updVars, depVars, conVars>>

(***************************************************************************)
(* Generic helpers                                                         *)
(***************************************************************************)
Max2(a, b) == IF a >= b THEN a ELSE b
Min2(a, b) == IF a <= b THEN a ELSE b

RECURSIVE SeqsUpTo(_, _)
\* all sequences over S of length at most n
SeqsUpTo(S, n) ==
    IF n = 0 THEN {<<>>}
    ELSE LET shorter == SeqsUpTo(S, n - 1)
         IN  shorter \cup {Append(s, x) : s \in shorter, x \in S}

RECURSIVE Concat(_)
\* the concatenation of a sequence of sequences
Concat(ss) == IF ss = <<>> THEN <<>> ELSE Head(ss) \o Concat(Tail(ss))

RECURSIVE Join(_, _)
\* sep.join(ss) on sequences of lexemes
Join(sep, ss) ==
    IF ss = <<>> THEN <<>>
    ELSE IF Len(ss) = 1 THEN Head(ss)
    ELSE Head(ss) \o sep \o Join(sep, Tail(ss))

Contains(s, x) == \E i \in 1..Len(s) : s[i] = x
Count(s, x) == Cardinality({i \in 1..Len(s) : s[i] = x})

(***************************************************************************)
(* api/watermark.py                                                        *)
(*                                                                         *)
(* An SVG text is [viewBox, width, height, numeric, text]: text is the     *)
(* sequence of lexemes of the document, and the three attributes are those *)
(* of its opening tag as get_svg_size's regular expressions find them      *)
(* (<<>> when absent); numeric is FALSE when the values found are not      *)
(* numbers float() accepts (width="100%", viewBox="0 0 a b"), and the      *)
(* numbers of the record then stand for nothing.  Lexemes: "<svg>" the opening tag, "e" any other content,      *)
(* "</svg>" a closing tag, "\n" a newline, MARK one watermark group        *)
(* <g transform="rotate(..)"><text .. pointer-events="none">TEST           *)
(* DOCUMENT</text></g>.                                                    *)
(*                                                                         *)
(* Lengths are fixed-point numbers in units of 1/10000 px.                 *)
(***************************************************************************)
CLOSE == "</svg>"
NL    == "\n"
MARK  == "<g rotate><text pointer-events=none>TEST DOCUMENT</text></g>"

U == 100 * 100      \* fixed-point units per pixel

DefaultWidth  == 400
DefaultHeight == 300
MaxWatermarks == 400
MinFont == 12
MaxFont == 60

\* float() of lines 260-261 and 269-271 raises ValueError
get_svg_size_raises(d) ==
    /\ ~d.numeric
    /\ (d.viewBox # <<>> /\ Len(d.viewBox) >= 4) \/ d.width # <<>> \/ d.height # <<>>

get_svg_size(d) ==
    IF d.viewBox # <<>> /\ Len(d.viewBox) >= 4
    THEN <<d.viewBox[3], d.viewBox[4]>>
    ELSE << IF d.width # <<>> THEN d.width[1] ELSE DefaultWidth,
            IF d.height # <<>> THEN d.height[1] ELSE DefaultHeight >>

watermark_count(w, h) ==
    LET area == w * h
        n == IF area < 30000 THEN Max2(12, area \div 2500)
             ELSE IF area < 80000 THEN Max2(18, area \div 2000)
             ELSE IF area < 200000 THEN Max2(30, area \div 2500)
             ELSE IF area < 500000 THEN Max2(60, area \div 3000)
             ELSE IF area < 1000000 THEN Max2(100, area \div 4000)
             ELSE IF area < 2000000 THEN Max2(150, area \div 5000)
             ELSE Max2(200, area \div 6000)
    IN  Min2(n, MaxWatermarks)

font_size(w, h) == Max2(MinFont, Min2(MaxFont, (w + h) \div 30))

\* x (in 1/100 px) times cos 45 = 0.70710678, in 1/10000 px
MulCos(x) == x * 70 + (x * 7106) \div 10000 + (x * 78) \div 1000000

\* text_width = font * 0.65 * 13, text_height = font * 1.2 (in 1/100 px)
watermark_bbox(font) == MulCos(font * 845) + MulCos(font * 120)

\* a spacing of half a bounding box
min_spacing_HalfBox(font) == watermark_bbox(font) \div 2

min_spacing(font) ==
    LET bbox == watermark_bbox(font)
        pixel_buffer == Max2(5 * U, font * (U \div 10))
    IN  Max2((bbox * 11) \div 10, bbox + pixel_buffer)

\* int((num / den) ** 0.5): the k with k * k * den <= num < (k + 1) * (k + 1) * den
ISqrt(num, den) ==
    CHOOSE k \in 0..num : k * k * den <= num /\ (k + 1) * (k + 1) * den > num

CeilDiv(a, b) == (a + b - 1) \div b

RECURSIVE GrowIdeal(_, _, _)
\* the while loop of lines 103-105 (and 115-117): raise the preferred side
\* until the grid holds count markers or the side reaches its maximum
GrowIdeal(ideal, maxSide, count) ==
    IF ideal < maxSide /\ ideal * Max2(1, CeilDiv(count, ideal)) < count
    THEN GrowIdeal(ideal + 1, maxSide, count)
    ELSE ideal

\* lines 107-108: the wide grid, from its grown number of columns
WideGrid(count, max_cols, max_rows, ideal_cols) ==
    <<Min2(ideal_cols, max_cols), Min2(Max2(1, CeilDiv(count, ideal_cols)), max_rows)>>

\* lines 119-120: the tall grid, from its grown number of rows
TallGrid(count, max_cols, max_rows, ideal_rows) ==
    <<Min2(Max2(1, CeilDiv(count, ideal_rows)), max_cols), Min2(ideal_rows, max_rows)>>

\* lines 92-120: <<cols, rows>> for a marker count and the largest grid that fits
GridWithin(w, h, count, max_cols, max_rows) ==
    IF h <= 0
    THEN \* line 92: aspect_ratio is 1
         WideGrid(count, max_cols, max_rows,
                  GrowIdeal(Min2(max_cols, Max2(1, ISqrt(count, 1))), max_cols, count))
    ELSE IF w >= h
    THEN WideGrid(count, max_cols, max_rows,
                  GrowIdeal(Min2(max_cols, Max2(1, ISqrt(count * w, h))), max_cols, count))
    ELSE TallGrid(count, max_cols, max_rows,
                  GrowIdeal(Min2(max_rows, Max2(1, ISqrt(count * h, w))), max_rows, count))

\* lines 74-88: the largest grid that fits at spacing sp
GridAt(w, h, count, sp) ==
    GridWithin(w, h, count, Max2(1, (w * 9400) \div sp), Max2(1, (h * 9000) \div sp))

\* <<cols, rows>> of the grid
Grid(w, h) == GridAt(w, h, watermark_count(w, h), min_spacing(font_size(w, h)))

actual_spacing(n, avail, sp) ==
    IF n > 1
    THEN IF (n - 1) * sp <= avail THEN sp ELSE avail \div (n - 1)
    ELSE 0

\* the quantities the placement loop reads
LayoutOf(w, h, g, bbox, sp) ==
    [cols |-> g[1], rows |-> g[2], bbox |-> bbox,
     spx |-> actual_spacing(g[1], w * 9400, sp),
     spy |-> actual_spacing(g[2], h * 9000, sp),
     final |-> Min2(watermark_count(w, h), g[1] * g[2])]

Layout(w, h) ==
    LayoutOf(w, h, Grid(w, h), watermark_bbox(font_size(w, h)), min_spacing(font_size(w, h)))

\* centre of the candidate of cell (row, col), rows and columns counted from 0
Candidate(w, h, l, row, col) ==
    LET base_x == w * (U \div 100) + l.bbox \div 2 + col * l.spx
        base_y == IF l.rows = 1 THEN (h * U) \div 2
                  ELSE (h * U - (l.rows - 1) * l.spy) \div 2 + row * l.spy
        x == IF l.cols > 1 /\ l.rows > 1
             THEN base_x + (((l.spx * 3) \div 10) * row) \div Max2(1, l.rows - 1)
             ELSE base_x
    IN  <<x, base_y>>

\* a bounds check that keeps every candidate
InBounds_KeepAll(w, h, m, p) == TRUE

\* line 211: the candidate is kept only when its bounding box is inside the document
InBounds(w, h, m, p) ==
    ~(p[1] < m \/ p[1] > w * U - m \/ p[2] < m \/ p[2] > h * U - m)

RECURSIVE PlaceFrom(_, _, _, _, _)
\* lines 185-224: the cells in row-major order from cell k on, with `placed`
\* markers so far; stops at final_watermark_count
PlaceFrom(w, h, l, k, placed) ==
    IF k >= l.cols * l.rows \/ placed >= l.final THEN <<>>
    ELSE IF InBounds(w, h, l.bbox \div 2, Candidate(w, h, l, k \div l.cols, k % l.cols))
         THEN <<Candidate(w, h, l, k \div l.cols, k % l.cols)>>
                 \o PlaceFrom(w, h, l, k + 1, placed + 1)
         ELSE PlaceFrom(w, h, l, k + 1, placed)

\* the centres of the markers add_watermark places, in the order it emits them
Markers(w, h) == PlaceFrom(w, h, Layout(w, h), 0, 0)

RECURSIVE ReplaceAll(_, _, _)
\* str.replace(old, new): every occurrence of lexeme old becomes the sequence new
ReplaceAll(s, old, new) ==
    IF s = <<>> THEN <<>>
    ELSE (IF Head(s) = old THEN new ELSE <<Head(s)>>) \o ReplaceAll(Tail(s), old, new)

\* line 111 with aspect_ratio = 0 (ZeroDivisionError) or negative (int() of a
\* complex number, TypeError)
grid_raises(w, h) == h > 0 /\ w <= 0

\* add_watermark raises instead of returning
add_watermark_raises(d) ==
    /\ d.text # <<>> /\ Contains(d.text, CLOSE)
    /\ get_svg_size_raises(d) \/ grid_raises(get_svg_size(d)[1], get_svg_size(d)[2])

add_watermark(d) ==
    IF d.text = <<>> \/ ~Contains(d.text, CLOSE) THEN d
    ELSE LET sz == get_svg_size(d)
             ms == Markers(sz[1], sz[2])
             watermark_text == Join(<<NL>>, [i \in 1..Len(ms) |-> <<MARK>>])
         IN  [d EXCEPT !.text = ReplaceAll(d.text, CLOSE, watermark_text \o <<NL, CLOSE>>)]

remove_watermark(d) ==
    IF d.text = <<>> \/ ~Contains(d.text, CLOSE) THEN d
    ELSE [d EXCEPT !.text = SelectSeq(d.text, LAMBDA x : x # MARK)]

(***************************************************************************)
(* The documents the watermark functions are applied to                    *)
(***************************************************************************)
MaxTextLen == 3

Dims == {50, 400, 1000}

\* sizes that are zero, and sizes that are not numbers: viewBox="0 0 a b",
\* width="100%" height="100%"
OddHeaders ==
    {[viewBox |-> <<0, 0, w, h>>, width |-> <<>>, height |-> <<>>, numeric |-> TRUE] :
        w \in {0, 400}, h \in {0, 300}}
    \cup {[viewBox |-> <<0, 0, 0, 0>>, width |-> <<>>, height |-> <<>>, numeric |-> FALSE],
          [viewBox |-> <<>>, width |-> <<0>>, height |-> <<0>>, numeric |-> FALSE]}

\* a size whose grid has a cell the bounds check of line 211 rejects
TightHeaders ==
    {[viewBox |-> <<0, 0, 1000, 1200>>, width |-> <<>>, height |-> <<>>, numeric |-> TRUE]}

Headers ==
    {[viewBox |-> <<>>, width |-> <<>>, height |-> <<>>, numeric |-> TRUE]}
    \cup TightHeaders
    \cup {[viewBox |-> <<0, 0, w, h>>, width |-> <<>>, height |-> <<>>, numeric |-> TRUE] :
             w \in Dims, h \in Dims}
    \cup {[viewBox |-> <<>>, width |-> <<w>>, height |-> <<h>>, numeric |-> TRUE] :
             w \in Dims, h \in Dims}
    \cup OddHeaders

Lexemes == {"<svg>", "e", CLOSE, NL, MARK}

SvgText(hd, t) ==
    [viewBox |-> hd.viewBox, width |-> hd.width, height |-> hd.height, numeric |-> hd.numeric,
     text |-> t]

WmDocs == {SvgText(hd, t) : hd \in Headers, t \in SeqsUpTo(Lexemes, MaxTextLen)}

\* the empty string
NoSvg == SvgText([viewBox |-> <<>>, width |-> <<>>, height |-> <<>>, numeric |-> TRUE], <<>>)

(***************************************************************************)
(* SpecWM: add_watermark, then remove_watermark, on one document           *)
(***************************************************************************)
WmAdd ==
    /\ wmPc = "in"
    /\ IF add_watermark_raises(wmDoc)
       THEN wmPc' = "raised" /\ UNCHANGED wmAdded
       ELSE wmPc' = "added" /\ wmAdded' = add_watermark(wmDoc)
    /\ UNCHANGED <<wmDoc, wmRemoved>>

WmRemove ==
    /\ wmPc = "added"
    /\ wmRemoved' = remove_watermark(wmAdded)
    /\ wmPc' = "removed"
    /\ UNCHANGED <<wmDoc, wmAdded>>

(***************************************************************************)
(* api/serializers.py PurchasedTemplateSerializer, api/views.py get_svg,   *)
(* wallet/models.py Wallet.debit: one purchased document of one buyer.     *)
(*                                                                         *)
(* pt      [exists, test, svg]  the PurchasedTemplate row                  *)
(* balance <<>> when the buyer has no wallet, else <<balance>>             *)
(* txs     the amounts of the payment transactions recorded                *)
(* resp    the last response: [op, ok, test, src, svg], test and src being *)
(*         the row's test flag and stored svg when it was rendered         *)
(* An optional request field is <<>> (absent) or <<value>>.                *)
(***************************************************************************)
charge_amount == 5

MaxSvgLen == 8

NoResp == [op |-> "none", ok |-> TRUE, test |-> TRUE, src |-> NoSvg, svg |-> NoSvg]

\* Wallet.debit: <<ok, balance, transactions>>
debit(bal, t, amount) ==
    IF amount <= 0 \/ bal < amount THEN <<FALSE, bal, t>>
    ELSE <<TRUE, bal - amount, Append(t, amount)>>

\* charge_if_test_false: [ok, balance, txs, data], data the validated data
\* [svg, test] after the watermark was removed from its svg
charge_if_test_false(old_test, data, bal, t) ==
    LET new_test == IF data.test # <<>> THEN data.test[1] ELSE old_test
    IN  IF old_test /\ ~new_test
        THEN IF bal = <<>> THEN [ok |-> FALSE, balance |-> bal, txs |-> t, data |-> data]
             ELSE IF bal[1] < charge_amount
                  THEN [ok |-> FALSE, balance |-> bal, txs |-> t, data |-> data]
             ELSE LET r == debit(bal[1], t, charge_amount)
                  IN  [ok |-> r[1], balance |-> <<r[2]>>, txs |-> r[3],
                       data |-> IF data.svg # <<>> /\ data.svg[1].text # <<>>
                                THEN [data EXCEPT !.svg = <<remove_watermark(data.svg[1])>>]
                                ELSE data]
        ELSE [ok |-> TRUE, balance |-> bal, txs |-> t, data |-> data]

\* to_representation (detail views): the svg of the row, watermarked when it is a test row
to_representation(row) == IF row.test THEN add_watermark(row.svg) ELSE row.svg

\* the svg texts a client can send: a clean document, or the svg of the last response
CleanSvgs ==
    {SvgText(hd, t) :
        hd \in {[viewBox |-> <<>>, width |-> <<>>, height |-> <<>>, numeric |-> TRUE],
                [viewBox |-> <<0, 0, 50, 50>>, width |-> <<>>, height |-> <<>>, numeric |-> TRUE]},
        t \in {<<"<svg>", "e", CLOSE>>, <<"<svg>", "e">>}}

ClientSvgs ==
    {d \in CleanSvgs \cup {resp.svg} : d.text # <<>> /\ Len(d.text) <= MaxSvgLen}

OptTest == {<<>>, <<TRUE>>, <<FALSE>>}

Rendered(op, row) ==
    [op |-> op, ok |-> TRUE, test |-> row.test, src |-> row.svg, svg |-> to_representation(row)]

Rejected(op) == [op |-> op, ok |-> FALSE, test |-> pt.test, src |-> NoSvg, svg |-> NoSvg]

RECURSIVE Depths(_, _)
\* the nesting depth after each lexeme of t, starting from depth d
Depths(t, d) ==
    IF t = <<>> THEN <<>>
    ELSE LET d2 == IF Head(t) = "<svg>" THEN d + 1 ELSE IF Head(t) = CLOSE THEN d - 1 ELSE d
         IN  <<d2>> \o Depths(Tail(t), d2)

\* ET.fromstring accepts the text: one root element, properly closed, with
\* nothing but whitespace around it
WellFormed(t) ==
    LET ds == Depths(t, 0)
        first == {i \in 1..Len(t) : t[i] = "<svg>"}
        closed == {i \in 1..Len(t) : ds[i] = 0 /\ t[i] = CLOSE}
    IN  /\ first # {} /\ closed # {}
        /\ LET a == CHOOSE i \in first : \A j \in first : i <= j
               b == CHOOSE i \in closed : \A j \in closed : i <= j
           IN  /\ a < b
               /\ \A i \in 1..Len(t) : (i < a \/ i > b) => t[i] = NL

\* PurchasedTemplate.save: parse_svg_to_form_fields raises on a text that is not XML
SaveRaises(row) == row.svg.text # <<>> /\ ~WellFormed(row.svg.text)

\* the effect of a request whose charge went through: the row is saved and rendered,
\* or save raises after the debit; whether the debit is then rolled back depends
\* on the deployment (ATOMIC_REQUESTS), which the repository does not fix
Commit(op, c, row) ==
    IF ~SaveRaises(row)
    THEN /\ pt' = row
         /\ balance' = c.balance
         /\ txs' = c.txs
         /\ resp' = Rendered(op, row)
    ELSE /\ resp' = Rejected(op)
         /\ UNCHANGED pt
         /\ \/ UNCHANGED <<balance, txs>>
            \/ balance' = c.balance /\ txs' = c.txs

\* POST: PurchasedTemplateSerializer.create
Create(svg, test) ==
    /\ ~pt.exists
    /\ LET c == charge_if_test_false(TRUE, [svg |-> <<svg>>, test |-> test], balance, txs)
           row == [exists |-> TRUE,
                   test |-> IF c.data.test # <<>> THEN c.data.test[1] ELSE TRUE,
                   svg |-> c.data.svg[1]]
       IN  IF c.ok
           THEN Commit("create", c, row)
           ELSE /\ resp' = Rejected("create")
                /\ UNCHANGED <<pt, balance, txs>>

\* PUT / PATCH: PurchasedTemplateSerializer.update
Update(svg, test) ==
    /\ pt.exists
    /\ LET c == charge_if_test_false(pt.test, [svg |-> svg, test |-> test], balance, txs)
           row == [pt EXCEPT !.test = IF c.data.test # <<>> THEN c.data.test[1] ELSE @,
                             !.svg = IF c.data.svg # <<>> THEN c.data.svg[1] ELSE @]
       IN  IF c.ok
           THEN Commit("update", c, row)
           ELSE /\ resp' = Rejected("update")
                /\ UNCHANGED <<pt, balance, txs>>

\* GET detail: PurchasedTemplateSerializer.to_representation
Retrieve ==
    /\ pt.exists
    /\ resp' = Rendered("retrieve", pt)
    /\ UNCHANGED <<pt, balance, txs>>

\* GET list: the svg is dropped from the representation
List ==
    /\ pt.exists
    /\ resp' = [op |-> "list", ok |-> TRUE, test |-> pt.test, src |-> pt.svg, svg |-> NoSvg]
    /\ UNCHANGED <<pt, balance, txs>>

\* GET <id>/svg: PurchasedTemplateViewSet.get_svg
get_svg ==
    /\ pt.exists
    /\ resp' = [op |-> "get_svg", ok |-> TRUE, test |-> pt.test, src |-> pt.svg,
                svg |-> IF pt.svg.text = <<>> THEN NoSvg
                        ELSE IF pt.test THEN add_watermark(pt.svg) ELSE pt.svg]
    /\ UNCHANGED <<pt, balance, txs>>

(***************************************************************************)
(* api/svg_parser.py parse_svg_to_form_fields                              *)
(*                                                                         *)
(* A document is [ok, elems]: ok says whether the text is well-formed XML, *)
(* elems lists the elements below the root in document order, each         *)
(* [id, text]: id is <<>> when the element has no id attribute and <<raw>> *)
(* otherwise, raw being the attribute as a sequence of lexemes with "."    *)
(* for each dot; text is the element's own text, stripped.                 *)
(* A keyword the code tests as a prefix ("select_", "track_", "max_",      *)
(* "depends_", "link_", "hide") is a lexeme of its own, so                 *)
(* p.startswith(k) is p[1] = k.                                            *)
(*                                                                         *)
(* A value is [k, v]: k = "str" with v the text, or k = "bool" with v the  *)
(* text str() gives it, <<"True">> or <<"False">>.                         *)
(* An optional key of a descriptor is <<>> (absent) or <<value>>.          *)
(* The display name (base id with "_" -> " ", title-cased) is left out.    *)
(***************************************************************************)
Str(t) == [k |-> "str", v |-> t]
Bool(b) == [k |-> "bool", v |-> IF b THEN <<"True">> ELSE <<"False">>]
\* Python truthiness of a value
Truthy(val) == IF val.k = "bool" THEN val.v = <<"True">> ELSE val.v # <<>>

RECURSIVE Split(_, _)
\* s.split(sep): the pieces of s between the occurrences of lexeme sep
Split(s, sep) ==
    IF ~Contains(s, sep) THEN <<s>>
    ELSE LET i == CHOOSE j \in 1..Len(s) : s[j] = sep /\ \A m \in 1..(j - 1) : s[m] # sep
         IN  <<SubSeq(s, 1, i - 1)>> \o Split(SubSeq(s, i + 1, Len(s)), sep)

startswith(p, k) == p # <<>> /\ p[1] = k

\* s.replace(k, ""), k a lexeme
Strip(s, k) == SelectSeq(s, LAMBDA x : x # k)

\* next((p for p in parts if p.startswith(k)), default)
FirstWith(parts, k, default) ==
    IF \E i \in 1..Len(parts) : startswith(parts[i], k)
    THEN parts[CHOOSE i \in 1..Len(parts) :
                  startswith(parts[i], k) /\ \A j \in 1..(i - 1) : ~startswith(parts[j], k)]
    ELSE default

\* parts.index(p), counted from 1
IndexOf(parts, p) == CHOOSE i \in 1..Len(parts) : parts[i] = p /\ \A j \in 1..(i - 1) : parts[j] # p

Numerals == {"3", "5", "12"}
\* int(t): <<>> when int raises ValueError, else <<n>>
IntOf(t) ==
    IF Len(t) = 1 /\ t[1] \in Numerals
    THEN <<CASE t[1] = "3" -> 3 [] t[1] = "5" -> 5 [] t[1] = "12" -> 12>>
    ELSE <<>>

TypeKeywords ==
    {"text", "textarea", "checkbox", "date", "upload", "number", "email", "tel", "gen",
     "password", "range", "color", "file", "status", "sign"}

RECURSIVE ScanParts(_, _, _)
\* lines 85-106: the loop over parts[1:], from part i on (counted from 1);
\* acc = [type, max, dep, role]
ScanParts(parts, i, acc) ==
    IF i > Len(parts) THEN acc
    ELSE LET part == parts[i]
             nxt ==
                IF startswith(part, "max_")
                THEN LET n == IntOf(Strip(part, "max_"))
                     IN  IF n # <<>> THEN [acc EXCEPT !.max = n] ELSE acc
                ELSE IF startswith(part, "depends_")
                THEN [acc EXCEPT !.dep = Strip(part, "depends_")]
                ELSE IF part = <<"tracking_id">>
                THEN [acc EXCEPT !.type = <<"gen">>]
                ELSE IF startswith(part, "track_")
                THEN IF IndexOf(parts, part) = Len(parts)
                     THEN [acc EXCEPT !.role = Tail(part)]
                     ELSE acc
                ELSE IF startswith(part, "hide") \/ (Len(part) = 1 /\ part[1] \in TypeKeywords)
                THEN [acc EXCEPT !.type = IF startswith(part, "hide") THEN <<"hide">> ELSE part]
                ELSE acc
         IN  ScanParts(parts, i + 1, nxt)

\* lines 73-83: the first track_ part after the base id exists and is not the last part
TrackNotLast(parts) ==
    LET tr == {i \in 2..Len(parts) : startswith(parts[i], "track_")}
    IN  tr # {} /\ (CHOOSE i \in tr : \A j \in tr : i <= j) # Len(parts)

\* lines 108-119
DefaultValue(field_type, parts, text_content) ==
    IF field_type = <<"checkbox">> THEN Bool(FALSE)
    ELSE IF field_type = <<"hide">>
    THEN Bool(FirstWith(parts, "hide", <<"hide">>) = <<"hide", "_checked">>)
    ELSE Str(text_content)

RECURSIVE Reverse(_)
Reverse(t) == IF t = <<>> THEN <<>> ELSE Reverse(Tail(t)) \o <<Head(t)>>

\* a parser that scans the tokens after the base id from the last to the first,
\* so that the first type token of the id decides the type
PlainField_FirstKind(el_id, parts, text_content) ==
    LET link_part == FirstWith(parts, "link_", <<>>)
        url == IF link_part # <<>> THEN Tail(link_part) ELSE <<>>
        acc == ScanParts(<<parts[1]>> \o Reverse(Tail(parts)), 2,
                         [type |-> parts[1], max |-> <<>>, dep |-> <<>>, role |-> <<>>])
        dv == DefaultValue(acc.type, parts, text_content)
    IN  [id |-> parts[1],
         type |-> acc.type,
         svgElementId |-> el_id,
         defaultValue |-> dv,
         currentValue |-> dv,
         isTrackingId |-> <<\E i \in 1..Len(parts) : parts[i] = <<"tracking_id">> >>,
         trackingRole |-> IF acc.role # <<>> THEN <<acc.role>> ELSE <<>>,
         max |-> acc.max,
         dependsOn |-> IF acc.dep # <<>> THEN <<acc.dep>> ELSE <<>>,
         link |-> IF url # <<>> THEN <<url>> ELSE <<>>,
         options |-> <<>>]

\* lines 70-142: the descriptor of a non-select element
PlainField(el_id, parts, text_content) ==
    LET link_part == FirstWith(parts, "link_", <<>>)
        url == IF link_part # <<>> THEN Tail(link_part) ELSE <<>>
        acc == ScanParts(parts, 2, [type |-> parts[1], max |-> <<>>, dep |-> <<>>, role |-> <<>>])
        dv == DefaultValue(acc.type, parts, text_content)
    IN  [id |-> parts[1],
         type |-> acc.type,
         svgElementId |-> el_id,
         defaultValue |-> dv,
         currentValue |-> dv,
         isTrackingId |-> <<\E i \in 1..Len(parts) : parts[i] = <<"tracking_id">> >>,
         trackingRole |-> IF acc.role # <<>> THEN <<acc.role>> ELSE <<>>,
         max |-> acc.max,
         dependsOn |-> IF acc.dep # <<>> THEN <<acc.dep>> ELSE <<>>,
         link |-> IF url # <<>> THEN <<url>> ELSE <<>>,
         options |-> <<>>]

\* lines 37-42
Option(el_id, select_part, text_content) ==
    LET label == [i \in 1..(Len(select_part) - 1) |->
                    IF select_part[i + 1] = "_" THEN " " ELSE select_part[i + 1]]
    IN  [value |-> el_id, label |-> label, svgElementId |-> el_id,
         displayText |-> IF text_content # <<>> THEN text_content ELSE label]

\* lines 48-56; options |-> <<"own">> is the descriptor's own empty list
SelectField(el_id, base_id) ==
    [id |-> base_id,
     type |-> <<"select">>,
     svgElementId |-> el_id,
     defaultValue |-> Str(<<>>),
     currentValue |-> Str(<<>>),
     isTrackingId |-> <<>>,
     trackingRole |-> <<>>,
     max |-> <<>>,
     dependsOn |-> <<>>,
     link |-> <<>>,
     options |-> <<"own">>]

\* lines 61-67: the first descriptor of fields_list whose id is base_id is given the
\* option list of base_id (options |-> <<"map">>: the list object of
\* select_options_map[base_id], which later options are appended to) and, when
\* its defaultValue is falsy, the first option as defaultValue and currentValue
AttachOptions(fields, base_id, opts) ==
    LET hit == {i \in 1..Len(fields) : fields[i].id = base_id}
    IN  IF hit = {} THEN fields
        ELSE LET i == CHOOSE j \in hit : \A m \in hit : j <= m
                 f == fields[i]
                 g == [f EXCEPT !.options = <<"map">>]
             IN  [fields EXCEPT ![i] =
                    IF ~Truthy(f.defaultValue) /\ opts # <<>>
                    THEN [g EXCEPT !.defaultValue = Str(opts[1].value),
                                   !.currentValue = Str(opts[1].value)]
                    ELSE g]

\* ParseElement with the select descriptor re-created at every option: the field
\* moves to the position of its latest option
ParseElement_Reanchor(st, el) ==
    LET el_id == el.id[1]
        parts == Split(el_id, ".")
        base_id == parts[1]
        select_part == FirstWith(parts, "select_", <<>>)
    IN  IF select_part # <<>>
        THEN LET isNew == base_id \notin DOMAIN st.map
                 kept == SelectSeq(st.fields,
                            LAMBDA f : ~(f.id = base_id /\ f.type = <<"select">>))
                 fields1 == Append(kept, SelectField(el_id, base_id))
                 opts == (IF isNew THEN <<>> ELSE st.map[base_id])
                            \o <<Option(el_id, select_part, el.text)>>
                 map1 == [b \in DOMAIN st.map \cup {base_id} |->
                            IF b = base_id THEN opts ELSE st.map[b]]
             IN  [fields |-> AttachOptions(fields1, base_id, opts), map |-> map1]
        ELSE IF TrackNotLast(parts) THEN st
        ELSE [st EXCEPT !.fields = Append(@, PlainField(el_id, parts, el.text))]

\* lines 11-142: the body of the loop for one element; st = [fields, map],
\* map the select_options_map (a function from base ids to option lists)
ParseElement(st, el) ==
    LET el_id == el.id[1]
        parts == Split(el_id, ".")
        base_id == parts[1]
        select_part == FirstWith(parts, "select_", <<>>)
    IN  IF select_part # <<>>
        THEN LET isNew == base_id \notin DOMAIN st.map
                 fields1 == IF isNew THEN Append(st.fields, SelectField(el_id, base_id))
                            ELSE st.fields
                 opts == (IF isNew THEN <<>> ELSE st.map[base_id])
                            \o <<Option(el_id, select_part, el.text)>>
                 map1 == [b \in DOMAIN st.map \cup {base_id} |->
                            IF b = base_id THEN opts ELSE st.map[b]]
             IN  [fields |-> AttachOptions(fields1, base_id, opts), map |-> map1]
        ELSE IF TrackNotLast(parts) THEN st
        ELSE [st EXCEPT !.fields = Append(@, PlainField(el_id, parts, el.text))]

RECURSIVE ParseLoop(_, _)
ParseLoop(st, elems) ==
    IF elems = <<>> THEN st ELSE ParseLoop(ParseElement(st, Head(elems)), Tail(elems))

\* the option list a descriptor holds when parse returns
ResolveOptions(f, map) ==
    IF f.options = <<"map">> THEN [f EXCEPT !.options = <<map[f.id]>>]
    ELSE IF f.options = <<"own">> THEN [f EXCEPT !.options = << <<>> >>]
    ELSE f

\* parse_svg_to_form_fields: [error, fields]; error when ET.fromstring raises
parse_svg_to_form_fields(doc) ==
    IF ~doc.ok THEN [error |-> TRUE, fields |-> <<>>]
    ELSE LET elements == SelectSeq(doc.elems, LAMBDA e : e.id # <<>>)
             st == ParseLoop([fields |-> <<>>, map |-> <<>>], elements)
         IN  [error |-> FALSE,
              fields |-> [i \in 1..Len(st.fields) |-> ResolveOptions(st.fields[i], st.map)]]

(***************************************************************************)
(* The documents the parser is applied to                                  *)
(***************************************************************************)
MaxElems == 3

El(raw, text) == [id |-> <<raw>>, text |-> text]

ElemPool ==
    { El(<<"a", ".", "text">>, <<"t1">>),
      El(<<"a", ".", "max_", "5">>, <<"t2">>),
      El(<<"c", ".", "select_", "A">>, <<"USA">>),
      El(<<"c", ".", "select_", "B", "_", "C">>, <<>>),
      El(<<"c", ".", "text">>, <<"t3">>),
      El(<<"f", ".", "track_", "role", ".", "max_", "5">>, <<"t4">>),
      El(<<"f", ".", "max_", "5", ".", "track_", "role">>, <<"t5">>),
      El(<<"track_", "role", ".", "track_", "role">>, <<"t6">>),
      El(<<"h", ".", "hide", "_checked">>, <<>>),
      El(<<"h", ".", "text", ".", "hide", "_unchecked">>, <<>>),
      El(<<"g", ".", "hide">>, <<>>),
      El(<<"hide", "_logo", ".", "hide", "_checked">>, <<>>),
      El(<<"x", ".", "tracking_id", ".", "text">>, <<"t7">>),
      El(<<"l", ".", "gen", ".", "link_", "u", ".", "v">>, <<"t8">>),
      El(<<"d", ".", "depends_", "a">>, <<>>),
      El(<<"k", ".", "checkbox">>, <<"t9">>),
      El(<<"m", ".", "max_", "x">>, <<"t1">>),
      El(<<"p", ".", "hide", ".", "number">>, <<"t4">>),
      El(<<"q", ".", "date", ".", "email", ".", "max_", "5">>, <<"t5">>),
      El(<<"y", ".", "tracking_id">>, <<"t6">>),
      El(<<>>, <<"t2">>),
      [id |-> <<>>, text |-> <<"t3">>] }

ParseDocs ==
    {[ok |-> TRUE, elems |-> es] : es \in SeqsUpTo(ElemPool, MaxElems)}
    \cup {[ok |-> FALSE, elems |-> <<>>]}

(***************************************************************************)
(* SpecParse: parse_svg_to_form_fields applied to one document             *)
(***************************************************************************)
Parse ==
    /\ pPc = "in"
    /\ pOut' = parse_svg_to_form_fields(pIn)
    /\ pPc' = "done"
    /\ UNCHANGED pIn

(***************************************************************************)
(* api/svg_updater.py                                                      *)
(*                                                                         *)
(* The svg text given to the update engine is [form, large, elems]:        *)
(*   form   "canon" when the text is what etree.tostring writes for its    *)
(*          tree, "wellformed" when it is well-formed XML written another  *)
(*          way (an XML declaration, other quotes, ...), "recoverable"     *)
(*          when it is not well-formed and the recovering parser still     *)
(*          builds a tree (a missing closing tag), "junk" when it is not   *)
(*          well-formed and the parser finds no element in it;             *)
(*   large  len(svg_content) >= 5 MB;                                      *)
(*   elems  the elements below the root in document order, each            *)
(*          [id, text, kids, opacity, visibility, display, href], kids     *)
(*          the child elements (of the same shape), an attribute <<>> when *)
(*          absent and <<value>> otherwise.                                *)
(* The text of a value is a sequence of characters.  A path <<i, j, ..>>   *)
(* names the j-th child of the i-th element, and so on.                    *)
(***************************************************************************)
Node(id, text, kids) ==
    [id |-> id, text |-> text, kids |-> kids,
     opacity |-> <<>>, visibility |-> <<>>, display |-> <<>>, href |-> <<>>]

\* str(value)
StrOf(val) == val.v

\* a or b, on values
Or(a, b) == IF Truthy(a) THEN a ELSE b

Digits == {"0", "1", "2", "3", "4", "5"}
DigitVal(c) == CASE c = "0" -> 0 [] c = "1" -> 1 [] c = "2" -> 2 [] c = "3" -> 3
                 [] c = "4" -> 4 [] c = "5" -> 5

\* t.strip()
RECURSIVE LStrip(_)
LStrip(t) == IF t # <<>> /\ Head(t) = " " THEN LStrip(Tail(t)) ELSE t
RECURSIVE RStrip(_)
RStrip(t) == IF t # <<>> /\ t[Len(t)] = " " THEN RStrip(SubSeq(t, 1, Len(t) - 1)) ELSE t
StripWs(t) == RStrip(LStrip(t))

\* int(t) of a pattern piece: <<>> when int raises ValueError, else <<n>>;
\* one digit, with blanks around it and an optional sign before it
PyInt(t) ==
    LET u == StripWs(t)
    IN  IF Len(u) = 1 /\ u[1] \in Digits THEN <<DigitVal(u[1])>>
        ELSE IF Len(u) = 2 /\ u[1] = "-" /\ u[2] \in Digits THEN <<0 - DigitVal(u[2])>>
        ELSE IF Len(u) = 2 /\ u[1] = "+" /\ u[2] \in Digits THEN <<DigitVal(u[2])>>
        ELSE <<>>

RECURSIVE Words(_)
\* text.split(): the runs of non-blank characters
Words(t) ==
    LET u == LStrip(t)
    IN  IF u = <<>> THEN <<>>
        ELSE LET n == IF Contains(u, " ")
                      THEN (CHOOSE j \in 1..Len(u) : u[j] = " " /\ \A m \in 1..(j - 1) : u[m] # " ") - 1
                      ELSE Len(u)
             IN  <<SubSeq(u, 1, n)>> \o Words(SubSeq(u, n + 1, Len(u)))

\* text[a:b] with Python's slice rules (a negative bound counts from the end)
PySlice(t, a, b) ==
    LET n == Len(t)
        lo == IF a < 0 THEN Max2(0, n + a) ELSE Min2(a, n)
        hi == IF b < 0 THEN Max2(0, n + b) ELSE Min2(b, n)
    IN  IF lo < hi THEN SubSeq(t, lo + 1, hi) ELSE <<>>

_extract_word(text, pattern) ==
    LET words == Words(StripWs(text))
        n == PyInt(pattern)
    IN  IF n = <<>> THEN <<>>
        ELSE IF 0 <= n[1] - 1 /\ n[1] - 1 < Len(words) THEN words[n[1]] ELSE <<>>

_extract_chars(text, pattern) ==
    IF Contains(pattern, ",")
    THEN LET pieces == Split(pattern, ",")
             picked == [k \in 1..Len(pieces) |->
                          LET n == PyInt(pieces[k])
                          IN  IF n # <<>> /\ 0 <= n[1] - 1 /\ n[1] - 1 < Len(text)
                              THEN <<text[n[1]]>> ELSE <<>>]
         IN  Concat(picked)
    ELSE IF Contains(pattern, "-")
    THEN LET pieces == Split(pattern, "-")
         IN  IF Len(pieces) # 2 \/ PyInt(pieces[1]) = <<>> \/ PyInt(pieces[2]) = <<>>
             THEN <<>>
             ELSE PySlice(text, PyInt(pieces[1])[1] - 1, PyInt(pieces[2])[1])
    ELSE LET n == PyInt(pattern)
         IN  IF n = <<>> THEN <<>>
             ELSE IF 0 <= n[1] - 1 /\ n[1] - 1 < Len(text) THEN <<text[n[1]]>> ELSE <<>>

\* field_values.get(name, "")
GetValue(field_values, name) ==
    IF name \in DOMAIN field_values THEN field_values[name] ELSE Str(<<>>)

IsInlineImage(val) ==
    val.k = "str" /\ (startswith(val.v, "data:image/") \/ startswith(val.v, "blob:"))

\* the match of ^(.+)\[(w|ch)(.+)\]$ on depends_on: <<>> when there is none, else
\* <<name, type, pattern>>; "[", "w", "ch" and "]" are characters of their own
DependencyMatch(dep) ==
    LET n == Len(dep)
        at == {j \in 2..(n - 3) : dep[j] = "[" /\ dep[j + 1] \in {"w", "ch"}}
    IN  IF n >= 5 /\ dep[n] = "]" /\ at # {}
        THEN LET j == CHOOSE m \in at : \A q \in at : q <= m
             IN  <<SubSeq(dep, 1, j - 1), dep[j + 1], SubSeq(dep, j + 2, n - 1)>>
        ELSE <<>>

_extract_from_dependency(depends_on, field_values) ==
    LET m == DependencyMatch(depends_on)
    IN  IF m # <<>>
        THEN LET field_value == GetValue(field_values, m[1])
                 string_value == StrOf(Or(field_value, Str(<<>>)))
             IN  IF IsInlineImage(field_value) THEN field_value
                 ELSE IF m[2] = "w" THEN Str(_extract_word(string_value, m[3]))
                 ELSE Str(_extract_chars(string_value, m[3]))
        ELSE LET field_value == GetValue(field_values, depends_on)
             IN  IF IsInlineImage(field_value) THEN field_value
                 ELSE Str(StrOf(Or(field_value, Str(<<>>))))

\* c.lower(), for the letters the values of the model are written with
LowerChar(c) ==
    CASE c = "T" -> "t" [] c = "R" -> "r" [] c = "U" -> "u" [] c = "E" -> "e"
      [] c = "Y" -> "y" [] c = "S" -> "s" [] OTHER -> c

\* values are strings or booleans here (JSON numbers are not modelled)
_bool_from_value(val) ==
    IF val.k = "bool" THEN val.v = <<"True">>
    ELSE LET t == StripWs(val.v)
             value_str == [i \in 1..Len(t) |-> LowerChar(t[i])]
         IN  value_str \in {<<"t", "r", "u", "e">>, <<"1">>, <<"y", "e", "s">>, <<"y">>}

RECURSIVE IterPaths(_, _)
\* root.iter(): the paths of the elements in document order
IterPaths(elems, prefix) ==
    Concat([i \in 1..Len(elems) |->
              <<Append(prefix, i)>> \o IterPaths(elems[i].kids, Append(prefix, i))])

RECURSIVE GetAt(_, _)
GetAt(elems, path) ==
    IF Len(path) = 1 THEN elems[path[1]] ELSE GetAt(elems[path[1]].kids, Tail(path))

RECURSIVE SetAt(_, _, _)
SetAt(elems, path, el) ==
    IF Len(path) = 1 THEN [elems EXCEPT ![path[1]] = el]
    ELSE [elems EXCEPT ![path[1]].kids = SetAt(@, Tail(path), el)]

RECURSIVE Attached(_, _)
\* the element of the path is still part of the tree (no ancestor lost its children)
Attached(elems, path) ==
    /\ path[1] <= Len(elems)
    /\ (Len(path) = 1 \/ Attached(elems[path[1]].kids, Tail(path)))

\* lines 139-144: element_map, from each non-empty id to the path of the last
\* element that carries it
ElementMap(elems) ==
    LET paths == IterPaths(elems, <<>>)
        idAt(k) == GetAt(elems, paths[k]).id
        ids == {idAt(k)[1] : k \in {n \in 1..Len(paths) : idAt(n) # <<>> /\ idAt(n)[1] # <<>>}}
    IN  [x \in ids |->
            paths[CHOOSE k \in 1..Len(paths) :
                     /\ idAt(k) = <<x>>
                     /\ \A n \in (k + 1)..Len(paths) : idAt(n) # <<x>>]]

Visible(el) == [el EXCEPT !.display = <<>>, !.opacity = <<"1">>, !.visibility = <<"visible">>]
Hidden(el) == [el EXCEPT !.opacity = <<"0">>, !.visibility = <<"hidden">>, !.display = <<"none">>]

\* el = element_map.get(id) followed by `if not el: continue`: the element is
\* used only when the id is known and the element has child elements (the truth
\* value of an lxml element is that of len(el)); a change to an element that
\* was removed from the tree does not reach the result
Usable(elems, emap, id) ==
    /\ id # <<>>
    /\ id \in DOMAIN emap
    /\ Attached(elems, emap[id])
    /\ GetAt(elems, emap[id]).kids # <<>>

RECURSIVE ApplyOptions(_, _, _, _)
\* lines 154-169
ApplyOptions(elems, emap, options, value) ==
    IF options = <<>> THEN elems
    ELSE LET option == Head(options)
             id == option.svgElementId
             next == IF Usable(elems, emap, id)
                     THEN LET el == GetAt(elems, emap[id])
                          IN  SetAt(elems, emap[id],
                                    IF option.value = StrOf(value) THEN Visible(el) ELSE Hidden(el))
                     ELSE elems
         IN  ApplyOptions(next, emap, Tail(options), value)

\* lines 147-200 for one descriptor
ApplyField(elems, emap, field, value) ==
    IF field.options # <<>> /\ field.options[1] # <<>>
    THEN ApplyOptions(elems, emap, field.options[1], value)
    ELSE IF ~Usable(elems, emap, field.svgElementId) THEN elems
    ELSE LET path == emap[field.svgElementId]
             el == GetAt(elems, path)
             field_type == IF field.type # <<>> THEN field.type ELSE <<"text">>
         IN  IF field_type \in {<<"upload">>, <<"file">>, <<"sign">>}
             THEN IF value.k = "str" /\ StripWs(value.v) # <<>>
                  THEN SetAt(elems, path, [el EXCEPT !.href = <<value.v>>])
                  ELSE elems
             ELSE IF field_type = <<"hide">>
             THEN SetAt(elems, path, IF _bool_from_value(value) THEN Visible(el) ELSE Hidden(el))
             ELSE SetAt(elems, path, [el EXCEPT !.kids = <<>>, !.text = StrOf(value)])

\* the last index of fields whose id is x
LastOf(fields, x) ==
    CHOOSE i \in 1..Len(fields) : fields[i].id = x /\ \A j \in (i + 1)..Len(fields) : fields[j].id # x

\* field_values when the entries of updates are overlaid whatever their id
FieldValues_NoGuard(fields, updates) ==
    LET ids == {fields[i].id : i \in 1..Len(fields)}
        seed(x) == LET f == fields[LastOf(fields, x)]
                   IN  Or(f.currentValue, Or(f.defaultValue, Str(<<>>)))
        ups(x) == {i \in 1..Len(updates) : updates[i].id = x}
    IN  [x \in ids \cup {updates[i].id : i \in 1..Len(updates)} |->
            IF ups(x) = {} THEN seed(x)
            ELSE LET u == updates[CHOOSE i \in ups(x) : \A j \in ups(x) : j <= i]
                 IN  IF u.value # <<>> THEN u.value[1] ELSE Str(<<>>)]

\* lines 116-127: field_values after seeding and after the updates
FieldValues(fields, updates) ==
    LET ids == {fields[i].id : i \in 1..Len(fields)}
        seed(x) == LET f == fields[LastOf(fields, x)]
                   IN  Or(f.currentValue, Or(f.defaultValue, Str(<<>>)))
        ups(x) == {i \in 1..Len(updates) : updates[i].id = x}
    IN  [x \in ids |->
            IF ups(x) = {} THEN seed(x)
            ELSE LET u == updates[CHOOSE i \in ups(x) : \A j \in ups(x) : j <= i]
                 IN  IF u.value # <<>> THEN u.value[1] ELSE Str(<<>>)]

RECURSIVE ChainFrom(_, _, _)
\* a resolution pass in which each dependent field sees the values resolved
\* before it
ChainFrom(fields, i, fv) ==
    IF i > Len(fields) THEN fv
    ELSE ChainFrom(fields, i + 1,
                   [fv EXCEPT ![fields[i].id] =
                       IF fields[i].dependsOn # <<>> /\ fields[i].dependsOn[1] # <<>>
                       THEN _extract_from_dependency(fields[i].dependsOn[1], fv)
                       ELSE fv[fields[i].id]])

ComputedValues_Chained(fields, field_values) == ChainFrom(fields, 1, field_values)

\* computed_values in which a dependent field that has a value of its own
\* keeps it
ComputedValues_OwnValue(fields, field_values) ==
    [x \in {fields[i].id : i \in 1..Len(fields)} |->
        LET f == fields[LastOf(fields, x)]
        IN  IF f.dependsOn # <<>> /\ f.dependsOn[1] # <<>> /\ ~Truthy(field_values[x])
            THEN _extract_from_dependency(f.dependsOn[1], field_values)
            ELSE field_values[x]]

\* lines 129-137: computed_values
ComputedValues(fields, field_values) ==
    [x \in {fields[i].id : i \in 1..Len(fields)} |->
        LET f == fields[LastOf(fields, x)]
        IN  IF f.dependsOn # <<>> /\ f.dependsOn[1] # <<>>
            THEN _extract_from_dependency(f.dependsOn[1], field_values)
            ELSE field_values[x]]

RECURSIVE Mutate(_, _, _, _)
\* lines 147-200: the descriptors in schema order
Mutate(elems, emap, fields, computed) ==
    IF fields = <<>> THEN elems
    ELSE Mutate(ApplyField(elems, emap, Head(fields), computed[Head(fields).id]),
                emap, Tail(fields), computed)

\* lines 104-209: what a call that misses the cache computes, [svg, fields]
Compute(svg, fields, updates) ==
    LET field_values == FieldValues(fields, updates)
        computed == ComputedValues(fields, field_values)
        elems == Mutate(svg.elems, ElementMap(svg.elems), fields, computed)
    IN  [svg |-> [form |-> "canon", large |-> svg.large, elems |-> elems],
         fields |-> [i \in 1..Len(fields) |->
                        [fields[i] EXCEPT !.currentValue = computed[fields[i].id]]]]

\* lines 93-97: the cache key, the hashes of the svg text and of the updates
CacheKey(svg, updates) == <<svg, updates>>

(***************************************************************************)
(* update_svg_from_field_updates with its cache                            *)
(*                                                                         *)
(* cache    the Django cache: a function from cache keys to the cached      *)
(*          (svg, form_fields)                                             *)
(* schema   the form_fields list object the caller holds and passes        *)
(* schemaId counts the schema objects the caller has held                  *)
(* calls    the last two calls, oldest first, each [svg, before, updates,  *)
(*          obj, hit, raised, out]: the arguments (before: the schema as   *)
(*          passed, obj: which schema object), whether the cache answered, *)
(*          whether the call raised, and the returned [svg, fields]        *)
(* ncalls   the number of calls so far                                     *)
(***************************************************************************)
MaxCalls == 2
MaxLoads == 1

\* the elements of a document as the parser sees them
RECURSIVE Flatten(_)
Flatten(elems) ==
    Concat([i \in 1..Len(elems) |->
              <<[id |-> elems[i].id, text |-> StripWs(elems[i].text)]>> \o Flatten(elems[i].kids)])

\* PurchasedTemplate.save: the form_fields of a document
SchemaOf(svg) == parse_svg_to_form_fields([ok |-> TRUE, elems |-> Flatten(svg.elems)]).fields

Leaf(text) == Node(<<>>, text, <<>>)

\* a text field c, b derived from c, a derived from b; every bound element has a
\* tspan child
ChainElems ==
    << Node(<< <<"c", ".", "text">> >>, <<>>, <<Leaf(<<"x">>)>>),
       Node(<< <<"b", ".", "depends_", "c">> >>, <<>>, <<Leaf(<<"y">>)>>),
       Node(<< <<"a", ".", "depends_", "b">> >>, <<"z">>, <<Leaf(<<>>)>>) >>

\* a text field and a select field of two options, the first option a leaf
SelectElems ==
    << Node(<< <<"n", ".", "text">> >>, <<"A", "c">>, <<>>),
       Node(<< <<"c", ".", "select_", "U">> >>, <<"U">>, <<>>),
       Node(<< <<"c", ".", "select_", "K">> >>, <<>>, <<Leaf(<<"K">>)>>) >>

UpdSvgs ==
    { [form |-> "canon", large |-> FALSE, elems |-> ChainElems],
      [form |-> "canon", large |-> TRUE, elems |-> ChainElems],
      [form |-> "canon", large |-> FALSE, elems |-> SelectElems],
      [form |-> "recoverable", large |-> FALSE, elems |-> ChainElems],
      [form |-> "junk", large |-> FALSE, elems |-> <<>>] }

UpdSchemas == {SchemaOf(d) : d \in UpdSvgs} \cup {<<>>}

UpdUpdates ==
    { <<>>,
      <<[id |-> <<"c">>, value |-> <<Str(<<"q">>)>>]>>,
      <<[id |-> <<"c">>, value |-> <<Str(<<"c", ".", "select_", "K">>)>>],
        [id |-> <<"zz">>, value |-> <<>>]>> }

Remember(call) == IF Len(calls) < 2 THEN Append(calls, call) ELSE <<calls[2], call>>

\* update_svg_from_field_updates(svg, schema, updates)
Call(svg, updates) ==
    /\ ncalls < MaxCalls
    /\ ncalls' = ncalls + 1
    /\ LET key == CacheKey(svg, updates)
           rec(hit, raised, out) ==
               [svg |-> svg, before |-> schema, updates |-> updates, obj |-> schemaId,
                hit |-> hit, raised |-> raised, out |-> out]
           unchanged == [svg |-> svg, fields |-> schema]
       IN  IF schema = <<>>
           THEN \* line 90: nothing to do
                /\ calls' = Remember(rec(FALSE, FALSE, unchanged))
                /\ UNCHANGED <<cache, schema, schemaId>>
           ELSE IF key \in DOMAIN cache
           THEN \* lines 100-102: answered from the cache
                /\ calls' = Remember(rec(TRUE, FALSE, cache[key]))
                /\ UNCHANGED <<cache, schema, schemaId>>
           ELSE IF svg.form = "junk"
           THEN \* lines 105-111: the recovering parser either raises, and the
                \* arguments are returned, or returns no root, and root.iter()
                \* of line 141 raises AttributeError out of the call
                /\ \/ calls' = Remember(rec(FALSE, FALSE, unchanged))
                   \/ calls' = Remember(rec(FALSE, TRUE, unchanged))
                /\ UNCHANGED <<cache, schema, schemaId>>
           ELSE LET out == Compute(svg, schema, updates)
                IN  /\ calls' = Remember(rec(FALSE, FALSE, out))
                    /\ schema' = out.fields
                    /\ cache' = IF svg.large THEN cache
                                ELSE [k \in DOMAIN cache \cup {key} |->
                                        IF k = key THEN out ELSE cache[k]]
                    /\ UNCHANGED schemaId

\* the caller takes another form_fields object (a row read from the database)
LoadSchema(s) ==
    /\ schemaId < MaxLoads
    /\ schema' = s
    /\ schemaId' = schemaId + 1
    /\ UNCHANGED <<cache, calls, ncalls>>

\* a cache entry times out (one hour) or is evicted
Expire(key) ==
    /\ key \in DOMAIN cache
    /\ cache' = [k \in DOMAIN cache \ {key} |-> cache[k]]
    /\ UNCHANGED <<schema, schemaId, calls, ncalls>>

(***************************************************************************)
(* update_svg_from_field_updates called once, on an empty cache, with the  *)
(* form_fields a stored document can have                                  *)
(***************************************************************************)
\* a field shown or hidden by a flag, a text field with a child element that
\* has an id of its own, a text field without child elements, and a field
\* derived from a name that is no field of the document
MixedElems ==
    << Node(<< <<"h", ".", "hide", "_checked">> >>, <<>>, <<Leaf(<<>>)>>),
       Node(<< <<"t", ".", "text">> >>, <<"T">>, <<Node(<< <<"k">> >>, <<"K">>, <<>>)>>),
       Node(<< <<"n", ".", "text">> >>, <<"A">>, <<>>),
       Node(<< <<"d", ".", "depends_", "zz">> >>, <<>>, <<Leaf(<<"D">>)>>) >>

ApplySvgs == UpdSvgs \cup {[form |-> "canon", large |-> FALSE, elems |-> MixedElems]}

ApplyUpdates ==
    UpdUpdates \cup
    { <<[id |-> <<"n">>, value |-> <<Str(<<"q">>)>>]>>,
      <<[id |-> <<"b">>, value |-> <<Str(<<"q">>)>>]>>,
      <<[id |-> <<"t">>, value |-> <<Str(<<>>)>>]>>,
      <<[id |-> <<"h">>, value |-> <<Bool(FALSE)>>]>>,
      <<[id |-> <<"zz">>, value |-> <<Str(<<"q">>)>>]>> }

\* the form_fields of a document as parsed, as stored after one call (lines
\* 202-206 write the computed values into them), and as parsed before an
\* element of the document was given its id
ApplySchemas ==
    {SchemaOf(d) : d \in ApplySvgs}
    \cup {Compute(d, SchemaOf(d), u).fields :
            d \in {e \in ApplySvgs : e.form # "junk"}, u \in ApplyUpdates}
    \cup {SelectSeq(SchemaOf(d), LAMBDA f : f.id # <<"k">>) : d \in ApplySvgs}

\* the first call of a process
Apply(svg, updates) == ncalls = 0 /\ Call(svg, updates)

(***************************************************************************)
(* update_svg_from_field_updates called by several workers at once, all on *)
(* one cache                                                               *)
(*                                                                         *)
(* procs  one record per worker: its arguments svg, fields and updates,    *)
(*        its position pc ("start" before the cache read of line 100,      *)
(*        "missed" after a miss, "computed" before the cache write of line *)
(*        213, "done", "raised"), and out, <<>> or what it returned        *)
(***************************************************************************)
NProcs == 2

Workers == 1..NProcs

ConArgs ==
    [svg : UpdSvgs, fields : UpdSchemas, updates : UpdUpdates, pc : {"start"}, out : {<<>>}]

Finish(p, pc, out) == procs' = [procs EXCEPT ![p].pc = pc, ![p].out = <<out>>]

\* lines 90-102: the early return and the cache read
ConRead(p) ==
    /\ procs[p].pc = "start"
    /\ IF procs[p].fields = <<>>
       THEN Finish(p, "done", [svg |-> procs[p].svg, fields |-> procs[p].fields])
       ELSE IF CacheKey(procs[p].svg, procs[p].updates) \in DOMAIN cache
       THEN Finish(p, "done", cache[CacheKey(procs[p].svg, procs[p].updates)])
       ELSE procs' = [procs EXCEPT ![p].pc = "missed"]
    /\ UNCHANGED <<cache, schema, schemaId, calls, ncalls>>

\* lines 104-209: parsing and the computation
ConCompute(p) ==
    /\ procs[p].pc = "missed"
    /\ IF procs[p].svg.form = "junk"
       THEN \/ Finish(p, "done", [svg |-> procs[p].svg, fields |-> procs[p].fields])
            \/ Finish(p, "raised", [svg |-> procs[p].svg, fields |-> procs[p].fields])
       ELSE Finish(p, "computed", Compute(procs[p].svg, procs[p].fields, procs[p].updates))
    /\ UNCHANGED <<cache, schema, schemaId, calls, ncalls>>

\* lines 211-216: the cache write and the return
ConWrite(p) ==
    /\ procs[p].pc = "computed"
    /\ procs' = [procs EXCEPT ![p].pc = "done"]
    /\ cache' = IF procs[p].svg.large THEN cache
                ELSE [k \in DOMAIN cache \cup {CacheKey(procs[p].svg, procs[p].updates)} |->
                        IF k = CacheKey(procs[p].svg, procs[p].updates)
                        THEN procs[p].out[1] ELSE cache[k]]
    /\ UNCHANGED <<schema, schemaId, calls, ncalls>>

(***************************************************************************)
(* Requests of one buyer served at once: upgrades of the buyer's document  *)
(* from test to paid (PATCH test = false, PurchasedTemplateSerializer      *)
(* .update) and other debits of the buyer's wallet (Wallet.debit).  Each   *)
(* request works on model instances of its own, read from the database.    *)
(*                                                                         *)
(* procs  one record per request: kind "upgrade" or "debit", the amount of *)
(*        a debit, the svg an upgrade sends (<<>> when it sends none), its *)
(*        position pc ("start", "loaded" when it has read its instances,   *)
(*        "charged" after the debit, "done", "rejected", "failed"), and    *)
(*        the instances it read: test, the document's flag, and bal, the   *)
(*        wallet's balance (<<>> when the buyer has no wallet)             *)
(***************************************************************************)
PayArgs ==
    [kind : {"upgrade"}, amount : {charge_amount}, svg : {<<>>} \cup {<<d>> : d \in CleanSvgs},
     pc : {"start"}, test : {<<>>}, bal : {<<>>}]
    \cup [kind : {"debit"}, amount : {3, 7}, svg : {<<>>},
          pc : {"start"}, test : {<<>>}, bal : {<<>>}]

\* the view reads the document and the serializer the buyer's wallet
\* (user.wallet, serializers.py line 338)
PayLoad(p) ==
    /\ procs[p].pc = "start"
    /\ procs' = [procs EXCEPT ![p].pc = "loaded", ![p].test = <<pt.test>>, ![p].bal = balance]
    /\ UNCHANGED <<pt, balance, txs, resp>>

\* serializers.py lines 332-347 and Wallet.debit, on the instances the request
\* read: the checks, then save(update_fields=['balance']) of the instance's
\* balance and the new Transaction row
PayCharge(p) ==
    /\ procs[p].pc = "loaded"
    /\ IF procs[p].kind = "upgrade" /\ ~procs[p].test[1]
       THEN \* line 337: no change from test to paid, no charge
            procs' = [procs EXCEPT ![p].pc = "charged"] /\ UNCHANGED <<balance, txs>>
       ELSE IF procs[p].bal = <<>> \/ ~debit(procs[p].bal[1], txs, procs[p].amount)[1]
       THEN procs' = [procs EXCEPT ![p].pc = "rejected"] /\ UNCHANGED <<balance, txs>>
       ELSE /\ balance' = <<debit(procs[p].bal[1], txs, procs[p].amount)[2]>>
            /\ txs' = debit(procs[p].bal[1], txs, procs[p].amount)[3]
            /\ procs' = [procs EXCEPT ![p].pc = IF procs[p].kind = "upgrade" THEN "charged"
                                                ELSE "done",
                                      ![p].bal = balance']
    /\ UNCHANGED <<pt, resp>>

\* serializers.py lines 349-356: the watermark is removed from the svg sent and
\* the document is saved
PaySave(p) ==
    /\ procs[p].pc = "charged"
    /\ LET svg == IF procs[p].svg = <<>> THEN pt.svg
                  ELSE IF procs[p].test[1] /\ procs[p].svg[1].text # <<>>
                  THEN remove_watermark(procs[p].svg[1])
                  ELSE procs[p].svg[1]
           row == [exists |-> TRUE, test |-> FALSE, svg |-> svg]
       IN  IF SaveRaises(row)
           THEN procs' = [procs EXCEPT ![p].pc = "failed"] /\ UNCHANGED pt
           ELSE procs' = [procs EXCEPT ![p].pc = "done"] /\ pt' = row
    /\ UNCHANGED <<balance, txs, resp>>

(***************************************************************************)
(* _extract_from_dependency applied to one expression                      *)
(*                                                                         *)
(* dIn   [kind, ks, have, v]: the expression is the name n alone ("bare"), *)
(*       n[wK] ("w"), n[chK] ("ch"), n[chK1,K2] ("list") or n[chA-B]       *)
(*       ("range"), ks its pieces; have says whether field_values holds n, *)
(*       v is n's value                                                    *)
(* dOut  the returned value                                                *)
(* dPc   "ready" before the call, "done" after it                          *)
(***************************************************************************)
MaxValLen == 3

DepName == <<"n">>
DepChars == {"a", "b", " "}
DepIndex == {<<"1">>, <<"2">>, <<"3">>}
\* pieces of a list or a range: indices, zero, and a piece int() rejects
DepPieces == DepIndex \cup {<<"0">>, <<"x">>}

DepValues ==
    {Str(t) : t \in SeqsUpTo(DepChars, MaxValLen)}
    \cup {Bool(TRUE), Bool(FALSE)}
    \cup {Str(<<"data:image/", "a", " ", "b">>), Str(<<"blob:", "a", " ", "b">>)}

DepForms ==
    {[kind |-> "bare", ks |-> <<>>]}
    \cup {[kind |-> k, ks |-> <<i>>] : k \in {"w", "ch"}, i \in DepIndex}
    \cup {[kind |-> k, ks |-> <<i, j>>] : k \in {"list", "range"}, i \in DepPieces, j \in DepPieces}

DepInputs ==
    {[kind |-> f.kind, ks |-> f.ks, have |-> h, v |-> v] :
        f \in DepForms, h \in BOOLEAN, v \in DepValues}

\* the depends_on string of an input
DepText(in) ==
    IF in.kind = "bare" THEN DepName
    ELSE DepName \o <<"[", IF in.kind = "w" THEN "w" ELSE "ch">>
            \o Join(<<IF in.kind = "range" THEN "-" ELSE ",">>, in.ks) \o <<"]">>

\* the field_values dict of an input
DepFieldValues(in) == [x \in (IF in.have THEN {DepName} ELSE {}) |-> in.v]

Extract ==
    /\ dPc = "ready"
    /\ dOut' = _extract_from_dependency(DepText(dIn), DepFieldValues(dIn))
    /\ dPc' = "done"
    /\ UNCHANGED dIn

(***************************************************************************)
(* Idle values of the parts a specification does not use                   *)
(***************************************************************************)
WmIdle  == wmDoc = NoSvg /\ wmAdded = NoSvg /\ wmRemoved = NoSvg /\ wmPc = "idle"
DocIdle == pt = [exists |-> FALSE, test |-> TRUE, svg |-> NoSvg] /\ balance = <<>> /\ txs = <<>> /\ resp = NoResp
ParIdle == pIn = <<>> /\ pOut = <<>> /\ pPc = "idle"
UpdIdle == cache = <<>> /\ schema = <<>> /\ schemaId = 0 /\ calls = <<>> /\ ncalls = 0
DepIdle == dIn = <<>> /\ dOut = <<>> /\ dPc = "idle"
ConIdle == procs = <<>>

(***************************************************************************)
(* SpecWM                                                                  *)
(***************************************************************************)
InitWM ==
    /\ wmDoc \in WmDocs /\ wmAdded = NoSvg /\ wmRemoved = NoSvg /\ wmPc = "in"
    /\ DocIdle /\ ParIdle /\ UpdIdle /\ DepIdle /\ ConIdle

NextWM ==
    \/ WmAdd /\ UNCHANGED <<docVars, parVars, updVars, depVars, conVars>>
    \/ WmRemove /\ UNCHANGED <<docVars, parVars, updVars, depVars, conVars>>

SpecWM == InitWM /\ [][NextWM]_vars

(***************************************************************************)
(* SpecDoc: the life of one purchased document                             *)
(***************************************************************************)
InitBalances == {<<>>, <<0>>, <<5>>, <<12>>}

InitDoc ==
    /\ pt = [exists |-> FALSE, test |-> TRUE, svg |-> NoSvg]
    /\ balance \in InitBalances
    /\ txs = <<>>
    /\ resp = NoResp
    /\ WmIdle /\ ParIdle /\ UpdIdle /\ DepIdle /\ ConIdle

NextDoc ==
    \/ \E svg \in ClientSvgs, t \in OptTest :
          Create(svg, t) /\ UNCHANGED <<wmVars, parVars, updVars, depVars, conVars>>
    \/ \E svg \in {<<>>} \cup {<<d>> : d \in ClientSvgs}, t \in OptTest :
          Update(svg, t) /\ UNCHANGED <<wmVars, parVars, updVars, depVars, conVars>>
    \/ Retrieve /\ UNCHANGED <<wmVars, parVars, updVars, depVars, conVars>>
    \/ List /\ UNCHANGED <<wmVars, parVars, updVars, depVars, conVars>>
    \/ get_svg /\ UNCHANGED <<wmVars, parVars, updVars, depVars, conVars>>

SpecDoc == InitDoc /\ [][NextDoc]_vars

(***************************************************************************)
(* SpecParse                                                               *)
(***************************************************************************)
InitParse ==
    /\ pIn \in ParseDocs /\ pOut = <<>> /\ pPc = "in"
    /\ WmIdle /\ DocIdle /\ UpdIdle /\ DepIdle /\ ConIdle

NextParse == Parse /\ UNCHANGED <<wmVars, docVars, updVars, depVars, conVars>>

SpecParse == InitParse /\ [][NextParse]_vars

(***************************************************************************)
(* SpecUpd: calls of the update engine by one caller                       *)
(***************************************************************************)
InitUpd ==
    /\ cache = <<>>
    /\ schema \in UpdSchemas
    /\ schemaId = 0
    /\ calls = <<>>
    /\ ncalls = 0
    /\ WmIdle /\ DocIdle /\ ParIdle /\ DepIdle /\ ConIdle

NextUpd ==
    \/ \E svg \in UpdSvgs, u \in UpdUpdates :
          Call(svg, u) /\ UNCHANGED <<wmVars, docVars, parVars, depVars, conVars>>
    \/ \E s \in UpdSchemas : LoadSchema(s) /\ UNCHANGED <<wmVars, docVars, parVars, depVars, conVars>>
    \/ \E key \in DOMAIN cache : Expire(key) /\ UNCHANGED <<wmVars, docVars, parVars, depVars, conVars>>

SpecUpd == InitUpd /\ [][NextUpd]_vars

(***************************************************************************)
(* SpecDep: one evaluation of a dependency expression                      *)
(***************************************************************************)
InitDep ==
    /\ dIn \in DepInputs
    /\ dOut = <<>>
    /\ dPc = "ready"
    /\ WmIdle /\ DocIdle /\ ParIdle /\ UpdIdle /\ ConIdle

NextDep == Extract /\ UNCHANGED <<wmVars, docVars, parVars, updVars, conVars>>

SpecDep == InitDep /\ [][NextDep]_vars

(***************************************************************************)
(* SpecApply                                                               *)
(***************************************************************************)
InitApply ==
    /\ cache = <<>>
    /\ schema \in ApplySchemas
    /\ schemaId = 0
    /\ calls = <<>>
    /\ ncalls = 0
    /\ WmIdle /\ DocIdle /\ ParIdle /\ DepIdle /\ ConIdle

NextApply ==
    \E svg \in ApplySvgs, u \in ApplyUpdates :
        Apply(svg, u) /\ UNCHANGED <<wmVars, docVars, parVars, depVars, conVars>>

SpecApply == InitApply /\ [][NextApply]_vars

(***************************************************************************)
(* SpecPay                                                                 *)
(***************************************************************************)
InitPay ==
    /\ pt \in [exists : {TRUE}, test : {TRUE}, svg : CleanSvgs]
    /\ balance \in InitBalances
    /\ txs = <<>>
    /\ resp = NoResp
    /\ procs \in [Workers -> PayArgs]
    /\ WmIdle /\ ParIdle /\ UpdIdle /\ DepIdle

NextPay ==
    \/ \E p \in Workers : PayLoad(p) /\ UNCHANGED <<wmVars, parVars, updVars, depVars>>
    \/ \E p \in Workers : PayCharge(p) /\ UNCHANGED <<wmVars, parVars, updVars, depVars>>
    \/ \E p \in Workers : PaySave(p) /\ UNCHANGED <<wmVars, parVars, updVars, depVars>>

SpecPay == InitPay /\ [][NextPay]_vars

(***************************************************************************)
(* SpecConc                                                                *)
(***************************************************************************)
InitConc ==
    /\ procs \in [Workers -> ConArgs]
    /\ WmIdle /\ DocIdle /\ ParIdle /\ UpdIdle /\ DepIdle

NextConc ==
    \/ \E p \in Workers : ConRead(p) /\ UNCHANGED <<wmVars, docVars, parVars, depVars>>
    \/ \E p \in Workers : ConCompute(p) /\ UNCHANGED <<wmVars, docVars, parVars, depVars>>
    \/ \E p \in Workers : ConWrite(p) /\ UNCHANGED <<wmVars, docVars, parVars, depVars>>

SpecConc == InitConc /\ [][NextConc]_vars

(***************************************************************************)
(* Claims on the watermark and on the purchased document                   *)
(***************************************************************************)
IsRead == resp.op \in {"retrieve", "get_svg"} /\ resp.ok

\* C1: for every document x with a closing </svg> tag and no watermark group,
\* remove_watermark(add_watermark(x)) is x, lexeme for lexeme.
C1_RoundTrip ==
    (wmPc = "removed" /\ Contains(wmDoc.text, CLOSE) /\ ~Contains(wmDoc.text, MARK))
        => wmRemoved = wmDoc

\* C2: every read made while the document's test flag is false returns an svg
\* that holds no watermark group.
C2_PaidReadClean ==
    (IsRead /\ ~resp.test) => ~Contains(resp.svg.text, MARK)

\* C3: every read of a test document whose stored svg has a closing </svg> tag
\* returns an svg with at least one watermark group (all document sizes of the
\* model are positive).
C3_TestReadMarked ==
    (IsRead /\ resp.test /\ Contains(resp.src.text, CLOSE))
        => Count(resp.svg.text, MARK) >= 1

(***************************************************************************)
(* Claims on the parser.  The grammar of an id as the specification words  *)
(* it: tokens are the pieces between dots, the base id is the first.       *)
(***************************************************************************)
Tokens(e) == Split(e.id[1], ".")
BaseId(e) == Tokens(e)[1]
HasId(e) == e.id # <<>>
IsOption(e) == HasId(e) /\ \E i \in 1..Len(Tokens(e)) : startswith(Tokens(e)[i], "select_")
IsPlain(e) == HasId(e) /\ ~IsOption(e)
\* a token after the base id starts with track_ and is not the last token
TrackBeforeLast(e) ==
    \E i \in 2..(Len(Tokens(e)) - 1) : startswith(Tokens(e)[i], "track_")
HasToken(e, t) == \E i \in 2..Len(Tokens(e)) : Tokens(e)[i] = t

Parsed == pPc = "done" /\ ~pOut.error
IdElems == SelectSeq(pIn.elems, HasId)

\* the elements that open a descriptor: the first option of each select field
\* and every plain element that is not skipped
Opens(es, i) ==
    IF IsOption(es[i])
    THEN \A j \in 1..(i - 1) : ~(IsOption(es[j]) /\ BaseId(es[j]) = BaseId(es[i]))
    ELSE ~TrackBeforeLast(es[i])

RECURSIVE Openers(_, _)
Openers(es, i) ==
    IF i > Len(es) THEN <<>>
    ELSE (IF Opens(es, i) THEN <<i>> ELSE <<>>) \o Openers(es, i + 1)

\* C6: the descriptors of the schema are, in order, those of the elements that
\* open a field, in document order: a select field at its first option, every
\* other descriptor at its own element.
C6_DocumentOrder ==
    Parsed =>
        LET es == IdElems
            op == Openers(es, 1)
        IN  /\ Len(pOut.fields) = Len(op)
            /\ \A i \in 1..Len(op) :
                  /\ pOut.fields[i].svgElementId = es[op[i]].id[1]
                  /\ pOut.fields[i].id = BaseId(es[op[i]])
                  /\ (pOut.fields[i].type = <<"select">>) = IsOption(es[op[i]])

\* a select field whose second option comes after the element of another field
C6_Witness ==
    /\ Parsed
    /\ Len(pIn.elems) = 3
    /\ IsOption(pIn.elems[1]) /\ IsPlain(pIn.elems[2]) /\ IsOption(pIn.elems[3])
    /\ BaseId(pIn.elems[1]) = BaseId(pIn.elems[3])
    /\ Len(pOut.fields) = 2
    /\ pOut.fields[1].options # <<>> /\ Len(pOut.fields[1].options[1]) = 2

\* C7: no two descriptors of the schema have the same id; several plain
\* elements of one base id leave one descriptor, that of the last of them.
C7_UniqueIds ==
    Parsed =>
        /\ \A i, j \in 1..Len(pOut.fields) :
              pOut.fields[i].id = pOut.fields[j].id => i = j
        /\ \A i \in 1..Len(IdElems) :
              (/\ IsPlain(IdElems[i]) /\ ~TrackBeforeLast(IdElems[i])
               /\ \A j \in (i + 1)..Len(IdElems) : BaseId(IdElems[j]) # BaseId(IdElems[i]))
              => \E k \in 1..Len(pOut.fields) :
                    /\ pOut.fields[k].id = BaseId(IdElems[i])
                    /\ pOut.fields[k].svgElementId = IdElems[i].id[1]

\* the option elements of base id b, in document order
OptionIds(es, b) ==
    LET os == SelectSeq(es, LAMBDA e : IsOption(e) /\ BaseId(e) = b)
    IN  [i \in 1..Len(os) |-> os[i].id[1]]

\* C8: every base id with a select-option element has exactly one select
\* descriptor, holding one option per option element in document order and
\* the first option's full id as defaultValue and currentValue.
C8_SelectField ==
    Parsed =>
        \A n \in 1..Len(IdElems) :
            IsOption(IdElems[n]) =>
                LET b == BaseId(IdElems[n])
                    sel == {k \in 1..Len(pOut.fields) :
                               pOut.fields[k].id = b /\ pOut.fields[k].type = <<"select">>}
                    ids == OptionIds(IdElems, b)
                IN  /\ Cardinality(sel) = 1
                    /\ \A k \in sel :
                          /\ pOut.fields[k].options # <<>>
                          /\ [i \in 1..Len(pOut.fields[k].options[1]) |->
                                pOut.fields[k].options[1][i].value] = ids
                          /\ pOut.fields[k].defaultValue = Str(ids[1])
                          /\ pOut.fields[k].currentValue = Str(ids[1])

\* C9: a plain element with a track_ token that is not its last token yields no
\* descriptor; one whose last token is track_<role> (and that has no earlier
\* track_ token) yields a descriptor with trackingRole = <role>.
C9_TrackLast ==
    Parsed =>
        \A n \in 1..Len(IdElems) :
            LET e == IdElems[n]
                ts == Tokens(e)
                mine == {k \in 1..Len(pOut.fields) : pOut.fields[k].svgElementId = e.id[1]}
            IN  IsPlain(e) =>
                  /\ TrackBeforeLast(e) => mine = {}
                  /\ (Len(ts) >= 2 /\ startswith(ts[Len(ts)], "track_") /\ ~TrackBeforeLast(e))
                        => /\ mine # {}
                           /\ \A k \in mine : pOut.fields[k].trackingRole = <<Tail(ts[Len(ts)])>>

\* C10: the descriptor of a plain element of kind hide has defaultValue and
\* currentValue true when the id carries a hide_checked token, and false when
\* it carries hide_unchecked or a bare hide token (and no hide_checked).
C10_HideDefault ==
    Parsed =>
        \A n \in 1..Len(IdElems) :
            LET e == IdElems[n]
                mine == {k \in 1..Len(pOut.fields) :
                            /\ pOut.fields[k].svgElementId = e.id[1]
                            /\ pOut.fields[k].type = <<"hide">>}
                checked == HasToken(e, <<"hide", "_checked">>)
                unchecked == HasToken(e, <<"hide", "_unchecked">>) \/ HasToken(e, <<"hide">>)
            IN  IsPlain(e) =>
                  \A k \in mine :
                      /\ checked => /\ pOut.fields[k].defaultValue = Bool(TRUE)
                                    /\ pOut.fields[k].currentValue = Bool(TRUE)
                      /\ (unchecked /\ ~checked) =>
                                    /\ pOut.fields[k].defaultValue = Bool(FALSE)
                                    /\ pOut.fields[k].currentValue = Bool(FALSE)

\* the element has an id attribute that is not empty
NamedElem(e) == e.id # <<>> /\ e.id[1] # <<>>

\* C26: an element with no id attribute or with an empty one contributes no
\* descriptor: the schema is that of the document without these elements, and
\* no descriptor is bound to an empty element id.
C26_NoIdNoField ==
    Parsed =>
        /\ pOut = parse_svg_to_form_fields([ok |-> TRUE, elems |-> SelectSeq(pIn.elems, NamedElem)])
        /\ \A k \in 1..Len(pOut.fields) : pOut.fields[k].svgElementId # <<>>

(***************************************************************************)
(* Claims on the update engine                                             *)
(***************************************************************************)
\* C4: two calls in a row with the same svg, the same schema object and the
\* same updates return the same svg, whether the second is answered from the
\* cache or recomputed.
C4_Idempotent ==
    (/\ Len(calls) = 2
     /\ calls[1].svg = calls[2].svg
     /\ calls[1].updates = calls[2].updates
     /\ calls[1].obj = calls[2].obj)
        => calls[2].out.svg = calls[1].out.svg

\* C5: every call on a document the parser builds a tree for returns what the
\* uncached computation on its own svg, schema and updates returns.
C5_NeverStale ==
    \A i \in 1..Len(calls) :
        (calls[i].before # <<>> /\ calls[i].svg.form # "junk") =>
            calls[i].out = Compute(calls[i].svg, calls[i].before, calls[i].updates)

\* the last call returned
Returned == calls # <<>>
LastCall == calls[Len(calls)]
ShownAttrs(el) == el.opacity = <<"1">> /\ el.visibility = <<"visible">> /\ el.display = <<>>
HiddenAttrs(el) == el.opacity = <<"0">> /\ el.visibility = <<"hidden">> /\ el.display = <<"none">>

\* C15: in the document a call on a well-formed document returns, for every select descriptor and every
\* option of it whose element exists in the document, with or without child
\* elements: the option whose value is the text of the computed value (the
\* currentValue written back) has opacity 1, visibility visible and no display
\* attribute, every other option opacity 0, visibility hidden, display none.
C15_OneOptionShown ==
    (Returned /\ LastCall.svg.form = "canon") =>
        LET out == LastCall.out
            emap == ElementMap(out.svg.elems)
        IN  \A k \in 1..Len(out.fields) :
                LET f == out.fields[k]
                IN  (f.options # <<>>) =>
                        \A n \in 1..Len(f.options[1]) :
                            LET o == f.options[1][n]
                            IN  o.svgElementId \in DOMAIN emap =>
                                  LET el == GetAt(out.svg.elems, emap[o.svgElementId])
                                  IN  IF o.value = StrOf(f.currentValue)
                                      THEN ShownAttrs(el) ELSE HiddenAttrs(el)

\* C16: a call on an svg text that is not well-formed XML raises no error and
\* returns the text as it was given, with the schema as it was given (every
\* currentValue unchanged).
C16_MalformedNoOp ==
    (Returned /\ LastCall.svg.form \in {"recoverable", "junk"}) =>
        /\ ~LastCall.raised
        /\ LastCall.out.svg = LastCall.svg
        /\ LastCall.out.fields = LastCall.before

\* call i went through the computation of lines 104-209
Computed(i) == ~calls[i].hit /\ ~calls[i].raised /\ calls[i].before # <<>>
                  /\ calls[i].svg.form # "junk"

HasDep(f) == f.dependsOn # <<>> /\ f.dependsOn[1] # <<>>

\* C21: the value of every descriptor with dependsOn is its expression
\* evaluated on the snapshot of field_values taken after seeding and after the
\* updates: a field that depends on a dependent field gets that field's seeded
\* or updated value, not its computed one.
C21_SnapshotResolution ==
    \A i \in 1..Len(calls) :
        Computed(i) =>
            \A k \in 1..Len(calls[i].before) :
                HasDep(calls[i].before[k]) =>
                    calls[i].out.fields[k].currentValue =
                        _extract_from_dependency(calls[i].before[k].dependsOn[1],
                                                 FieldValues(calls[i].before, calls[i].updates))

\* C21 witness: a computed call with a field whose source is itself a
\* dependent field, the source's computed value differing from its snapshot
\* value and from the value the field got
C21_Witness ==
    \E i \in 1..Len(calls) :
        /\ Computed(i)
        /\ \E k, m \in 1..Len(calls[i].before) :
              /\ HasDep(calls[i].before[k]) /\ HasDep(calls[i].before[m])
              /\ calls[i].before[k].dependsOn[1] = calls[i].before[m].id
              /\ calls[i].out.fields[m].currentValue
                    # FieldValues(calls[i].before, calls[i].updates)[calls[i].before[m].id]
              /\ calls[i].out.fields[k].currentValue # calls[i].out.fields[m].currentValue

RECURSIVE TextContent(_)
\* the text of an element and of the elements below it
TextContent(el) == el.text \o Concat([i \in 1..Len(el.kids) |-> TextContent(el.kids[i])])

\* the descriptor writes text: it is no select, upload, file, signature or hide
WritesText(f) ==
    /\ f.options = <<>>
    /\ f.type \notin {<<"select">>, <<"upload">>, <<"file">>, <<"sign">>, <<"hide">>}

\* the document has an element of this id
Names(elems, id) == id # <<>> /\ id \in DOMAIN ElementMap(elems)
ElementOf(elems, id) == GetAt(elems, ElementMap(elems)[id])

\* C22: after a call on a well-formed document, for every descriptor that is
\* no select, upload, file, signature or hide and whose svgElementId names an
\* element of the document, with or without child elements, the text content
\* of that element is the text of the field's computed value.
C22_TextWritten ==
    \A i \in 1..Len(calls) :
        (Computed(i) /\ calls[i].svg.form = "canon") =>
            \A k \in 1..Len(calls[i].before) :
                (WritesText(calls[i].before[k])
                    /\ Names(calls[i].svg.elems, calls[i].before[k].svgElementId)) =>
                    /\ Names(calls[i].out.svg.elems, calls[i].before[k].svgElementId)
                    /\ TextContent(ElementOf(calls[i].out.svg.elems,
                                             calls[i].before[k].svgElementId))
                          = StrOf(calls[i].out.fields[k].currentValue)

\* the ids of the descriptors, and the entries of updates addressed to them
FieldIds(fields) == {fields[i].id : i \in 1..Len(fields)}
KnownUpdates(fields, updates) == SelectSeq(updates, LAMBDA u : u.id \in FieldIds(fields))

\* C25: an entry of updates whose id is the id of no descriptor has no
\* effect: the call returns the svg and the descriptor values of the call
\* without the entry, and does not raise.
C25_UnknownIgnored ==
    \A i \in 1..Len(calls) :
        (~calls[i].hit /\ calls[i].svg.form # "junk") =>
            /\ ~calls[i].raised
            /\ calls[i].out =
                  IF calls[i].before = <<>>
                  THEN [svg |-> calls[i].svg, fields |-> calls[i].before]
                  ELSE Compute(calls[i].svg, calls[i].before,
                               KnownUpdates(calls[i].before, calls[i].updates))

\* C25 witness: a computed call with an entry for an unknown id, a field
\* derived from that id, and an entry the call applied
C25_Witness ==
    \E i \in 1..Len(calls) :
        /\ Computed(i)
        /\ \E u \in 1..Len(calls[i].updates) :
              /\ calls[i].updates[u].id \notin FieldIds(calls[i].before)
              /\ calls[i].updates[u].value # <<>>
              /\ \E k \in 1..Len(calls[i].before) :
                    calls[i].before[k].dependsOn = <<calls[i].updates[u].id>>
        /\ calls[i].out.svg.elems # calls[i].svg.elems

\* updates without the entries addressed to id
NotFor(updates, id) == SelectSeq(updates, LAMBDA u : u.id # id)

\* the element of this id is the same, or missing, in both documents
SameElement(a, b, id) ==
    /\ Names(a, id) <=> Names(b, id)
    /\ Names(a, id) => ElementOf(a, id) = ElementOf(b, id)

\* descriptor k of the call has the value and the element it has in ref
SameOutcome(out, ref, k) ==
    /\ out.fields[k].currentValue = ref.fields[k].currentValue
    /\ SameElement(out.svg.elems, ref.svg.elems, out.fields[k].svgElementId)

C28_EmptyUpdatesKeepValues ==
    \A i \in 1..Len(calls) :
        (Computed(i) /\ calls[i].updates = <<>> /\ calls[i].svg.form = "canon") =>
            \A k \in 1..Len(calls[i].before) :
                ~HasDep(calls[i].before[k]) =>
                    calls[i].out.fields[k].currentValue = calls[i].before[k].currentValue

\* the element ids the schema binds: those of its descriptors and of their options
BoundIds(fields) ==
    {fields[k].svgElementId : k \in 1..Len(fields)}
    \cup UNION {{fields[k].options[1][o].svgElementId : o \in 1..Len(fields[k].options[1])} :
                  k \in {m \in 1..Len(fields) : fields[m].options # <<>>}}

\* the element itself, without the elements below it
Shallow(el) == [el EXCEPT !.kids = <<>>]

Unbound(el, fields) == el.id = <<>> \/ el.id[1] \notin BoundIds(fields)

\* C29: a call changes only elements bound to the schema: every element whose
\* id is neither the svgElementId of a descriptor nor that of an option is
\* still in the document at its position, with its attributes and text, also
\* when it is a child of a bound text element.
C29_UnboundKept ==
    \A i \in 1..Len(calls) :
        (Computed(i) /\ calls[i].svg.form = "canon") =>
            \A n \in 1..Len(IterPaths(calls[i].svg.elems, <<>>)) :
                Unbound(GetAt(calls[i].svg.elems, IterPaths(calls[i].svg.elems, <<>>)[n]),
                        calls[i].before) =>
                    /\ Attached(calls[i].out.svg.elems, IterPaths(calls[i].svg.elems, <<>>)[n])
                    /\ Shallow(GetAt(calls[i].out.svg.elems, IterPaths(calls[i].svg.elems, <<>>)[n]))
                         = Shallow(GetAt(calls[i].svg.elems, IterPaths(calls[i].svg.elems, <<>>)[n]))

\* no cache entry present before a step holds another value after it
EntriesKept == \A k \in DOMAIN cache : k \in DOMAIN cache' => cache'[k] = cache[k]

\* C20: under every interleaving of concurrent calls, each a cache read, a
\* computation and a cache write, a cache entry once written under a key is
\* never replaced by a different value.
C20_EntriesImmutable == [][EntriesKept]_vars

(***************************************************************************)
(* Claims on the wallet under concurrent requests                          *)
(***************************************************************************)
RECURSIVE Sum(_)
Sum(t) == IF t = <<>> THEN 0 ELSE Head(t) + Sum(Tail(t))

\* what the wallet holds plus what the recorded payments took from it
Funds(bal, t) == IF bal = <<>> THEN 0 ELSE bal[1] + Sum(t)

\* a request is rejected in this step
RejectedNow == \E p \in Workers : procs[p].pc # "rejected" /\ procs'[p].pc = "rejected"

\* C30: under every interleaving of upgrade requests and wallet debits of one
\* buyer, the balance is never negative and is the initial balance minus the
\* amounts of the payment transactions recorded; a request rejected for
\* insufficient funds changes neither the balance nor the document's test flag
\* nor its svg.
C30_WalletConsistent ==
    [][/\ balance' # <<>> => balance'[1] >= 0
       /\ Funds(balance', txs') = Funds(balance, txs)
       /\ RejectedNow => UNCHANGED <<pt, balance, txs>>]_vars

(***************************************************************************)
(* Claims on the watermark functions: totality, bounds, overlap            *)
(***************************************************************************)
\* C17: add_watermark and remove_watermark return for every document, whatever
\* width, height or viewBox it declares, and return their input unchanged when
\* it has no closing </svg> tag.
C17_NeverRaises ==
    /\ wmPc # "raised"
    /\ (wmPc \in {"added", "removed"} /\ ~Contains(wmDoc.text, CLOSE)) => wmAdded = wmDoc
    /\ (wmPc = "removed" /\ ~Contains(wmAdded.text, CLOSE)) => wmRemoved = wmAdded

\* add_watermark returned a document it has put markers into
Watermarked == wmPc \in {"added", "removed"} /\ Contains(wmDoc.text, CLOSE)

\* the cells of the grid in row-major order, and the candidate of cell k
Cells(l) == 0..(l.cols * l.rows - 1)
CellCentre(w, h, l, k) == Candidate(w, h, l, k \div l.cols, k % l.cols)

\* the bounding box centred at p lies inside [0, w] x [0, h]
Inside(w, h, l, p) ==
    /\ l.bbox \div 2 <= p[1] /\ p[1] <= w * U - l.bbox \div 2
    /\ l.bbox \div 2 <= p[2] /\ p[2] <= h * U - l.bbox \div 2

\* every marker in ms is the unmoved candidate of a cell and lies inside
AllInside(w, h, l, ms) ==
    \A i \in 1..Len(ms) :
        /\ Inside(w, h, l, ms[i])
        /\ \E k \in Cells(l) : ms[i] = CellCentre(w, h, l, k)

\* the markers the call wrote are those of Markers, once per closing tag
WroteMarkers(n) ==
    Count(wmAdded.text, MARK) = Count(wmDoc.text, MARK) + n * Count(wmDoc.text, CLOSE)

\* C18: every marker add_watermark places has its centre at least half a
\* bounding box away from each edge of the document, and is the candidate of
\* a grid cell at the position computed for it: candidates that fail the
\* bounds are dropped, not moved.
C18_WithinBounds ==
    Watermarked =>
        /\ AllInside(get_svg_size(wmDoc)[1], get_svg_size(wmDoc)[2],
                     Layout(get_svg_size(wmDoc)[1], get_svg_size(wmDoc)[2]),
                     Markers(get_svg_size(wmDoc)[1], get_svg_size(wmDoc)[2]))
        /\ WroteMarkers(Len(Markers(get_svg_size(wmDoc)[1], get_svg_size(wmDoc)[2])))

\* some candidate of the grid is outside the bounds
SomeOutside(w, h, l) == \E k \in Cells(l) : ~Inside(w, h, l, CellCentre(w, h, l, k))

\* C18 witness: a call that placed markers and dropped a candidate
C18_Witness ==
    /\ Watermarked
    /\ Count(wmAdded.text, MARK) > Count(wmDoc.text, MARK)
    /\ SomeOutside(get_svg_size(wmDoc)[1], get_svg_size(wmDoc)[2],
                   Layout(get_svg_size(wmDoc)[1], get_svg_size(wmDoc)[2]))

Dist(a, b) == IF a >= b THEN a - b ELSE b - a

\* the bounding boxes centred at p and q, each bbox wide and bbox high, do not
\* overlap
Apart(bbox, p, q) == Dist(p[1], q[1]) >= bbox \/ Dist(p[2], q[2]) >= bbox

NoOverlap(bbox, ms) ==
    \A i \in 1..Len(ms) : \A j \in (i + 1)..Len(ms) : Apart(bbox, ms[i], ms[j])

\* C19: no two markers placed by one add_watermark call have overlapping
\* axis-aligned bounding boxes: any two of them are at least a bounding box
\* width apart in x or a bounding box height apart in y, with the shift that
\* add_watermark gives each row.
C19_NoOverlap ==
    Watermarked =>
        /\ NoOverlap(Layout(get_svg_size(wmDoc)[1], get_svg_size(wmDoc)[2]).bbox,
                     Markers(get_svg_size(wmDoc)[1], get_svg_size(wmDoc)[2]))
        /\ WroteMarkers(Len(Markers(get_svg_size(wmDoc)[1], get_svg_size(wmDoc)[2])))

\* two markers of different rows, the lower one shifted against the upper one
Sheared(l, ms) ==
    /\ l.cols > 1 /\ l.rows > 1
    /\ \E i, j \in 1..Len(ms) : ms[i][2] < ms[j][2] /\ ms[i][1] < ms[j][1]
                                 /\ ms[j][1] - ms[i][1] < l.spx
    /\ \E i, j \in 1..Len(ms) : ms[i][2] = ms[j][2] /\ ms[i][1] < ms[j][1]

\* C19 witness: a call that placed markers in several rows and columns, a
\* lower row shifted
C19_Witness ==
    /\ Watermarked
    /\ Count(wmAdded.text, MARK) >= Count(wmDoc.text, MARK) + 3
    /\ Sheared(Layout(get_svg_size(wmDoc)[1], get_svg_size(wmDoc)[2]),
               Markers(get_svg_size(wmDoc)[1], get_svg_size(wmDoc)[2]))

\* the position of the last closing tag of a text that has one
LastClose(t) == CHOOSE i \in 1..Len(t) : t[i] = CLOSE /\ \A j \in (i + 1)..Len(t) : t[j] # CLOSE

\* t with the block of n markers, one per line, put before its last closing tag
MarkedAtEnd(t, n) ==
    SubSeq(t, 1, LastClose(t) - 1) \o Join(<<NL>>, [i \in 1..n |-> <<MARK>>]) \o <<NL>>
        \o SubSeq(t, LastClose(t), Len(t))

\* C24: add_watermark puts its markers only before the closing tag of the
\* document: the rest of the document is kept as it was and in order, and no
\* marker is put anywhere else, also when the document holds more than one
\* closing svg tag.
C24_OnlyBeforeClose ==
    Watermarked =>
        wmAdded.text =
            MarkedAtEnd(wmDoc.text, Len(Markers(get_svg_size(wmDoc)[1], get_svg_size(wmDoc)[2])))

(***************************************************************************)
(* Claims on the kind, the tracking flag and the link of a descriptor      *)
(***************************************************************************)
\* the tokens of the element a descriptor was made from
FieldTokens(f) == Split(f.svgElementId, ".")
CarriesTrackingId(f) ==
    \E i \in 2..Len(FieldTokens(f)) : FieldTokens(f)[i] = <<"tracking_id">>
IsKindToken(t) == startswith(t, "hide") \/ (Len(t) = 1 /\ t[1] \in TypeKeywords)
KindTokens(f) == {i \in 2..Len(FieldTokens(f)) : IsKindToken(FieldTokens(f)[i])}
KindOfToken(t) == IF startswith(t, "hide") THEN <<"hide">> ELSE t
LastKind(f) == CHOOSE i \in KindTokens(f) : \A j \in KindTokens(f) : j <= i

\* C12: every descriptor made from an element whose id carries a tracking_id
\* token has isTrackingId = true and type gen, whatever other tokens the id
\* carries and in whatever order.
C12_TrackingIdIsGen ==
    Parsed =>
        \A k \in 1..Len(pOut.fields) :
            CarriesTrackingId(pOut.fields[k]) =>
                /\ pOut.fields[k].isTrackingId = <<TRUE>>
                /\ pOut.fields[k].type = <<"gen">>

\* C13: the descriptor of a non-select element whose id has no tracking_id
\* token has the type of the last token after the base id that is a type
\* keyword or starts with hide (hide for any hide* token), and the base id
\* itself when there is no such token.
C13_LastKindWins ==
    Parsed =>
        \A k \in 1..Len(pOut.fields) :
            LET f == pOut.fields[k]
            IN  (f.type # <<"select">> /\ ~CarriesTrackingId(f)) =>
                    f.type = IF KindTokens(f) = {} THEN FieldTokens(f)[1]
                             ELSE KindOfToken(FieldTokens(f)[LastKind(f)])

\* a descriptor whose id carries two different kind tokens, and one with none
C13_Witness ==
    /\ Parsed
    /\ \E k \in 1..Len(pOut.fields) :
          LET f == pOut.fields[k]
          IN  /\ f.type # <<"select">> /\ ~CarriesTrackingId(f)
              /\ \E i \in KindTokens(f), j \in KindTokens(f) :
                    i < j /\ KindOfToken(FieldTokens(f)[i]) # KindOfToken(FieldTokens(f)[j])
    /\ \E k \in 1..Len(pOut.fields) :
          pOut.fields[k].type # <<"select">> /\ KindTokens(pOut.fields[k]) = {}

\* the raw id after its first link_ marker, dots included
AfterLinkMarker(raw) ==
    LET at == CHOOSE i \in 1..Len(raw) : raw[i] = "link_" /\ \A j \in 1..(i - 1) : raw[j] # "link_"
    IN  SubSeq(raw, at + 1, Len(raw))

\* C14: the link of a descriptor made from an element whose id contains a
\* link_ marker is the whole remainder of the raw id after the marker, dots
\* included.
C14_LinkRemainder ==
    Parsed =>
        \A k \in 1..Len(pOut.fields) :
            LET f == pOut.fields[k]
            IN  (f.type # <<"select">> /\ Contains(f.svgElementId, "link_")) =>
                    f.link = <<AfterLinkMarker(f.svgElementId)>>

(***************************************************************************)
(* Claims on the dependency evaluator.  Words and characters as the        *)
(* specification words them: a word is a maximal run of non-blank          *)
(* characters, positions count from 1.                                     *)
(***************************************************************************)
Evaluated == dPc = "done" /\ dIn.have
WordStarts(t) == {i \in 1..Len(t) : t[i] # " " /\ (i = 1 \/ t[i - 1] = " ")}
WordEnd(t, i) ==
    CHOOSE j \in i..Len(t) :
        /\ j = Len(t) \/ t[j + 1] = " "
        /\ \A m \in i..(j - 1) : t[m + 1] # " "
KthWord(t, K) ==
    IF Cardinality(WordStarts(t)) < K THEN <<>>
    ELSE LET i == CHOOSE x \in WordStarts(t) :
                      Cardinality({y \in WordStarts(t) : y < x}) = K - 1
         IN  SubSeq(t, i, WordEnd(t, i))
\* the character at position K, nothing when the text is shorter
KthChar(t, K) == IF K \in 1..Len(t) THEN <<t[K]>> ELSE <<>>
\* the index a piece denotes: <<>> for an unparsable piece
IndexOfPiece(piece) == IF piece \in DepIndex \cup {<<"0">>} THEN <<DigitVal(piece[1])>> ELSE <<>>
ListedChars(t, ks) ==
    Concat([k \in 1..Len(ks) |->
              IF IndexOfPiece(ks[k]) = <<>> THEN <<>> ELSE KthChar(t, IndexOfPiece(ks[k])[1])])

\* C11: for every source value v that is not an inline image (the special case
\* of the evaluation grammar) and every K >= 1, n[wK] is the K-th word of v
\* (empty when there are fewer), n[chK] the K-th character, n[chK1,K2] the
\* listed characters in order, unparsable indices skipped, and a bare n is v
\* itself, as text.
C11_Extraction ==
    (Evaluated /\ ~IsInlineImage(dIn.v) /\ dIn.kind # "range"
       /\ \A k \in 1..Len(dIn.ks) : dIn.ks[k] # <<"0">>)
        => dOut = Str(CASE dIn.kind = "bare" -> StrOf(dIn.v)
                        [] dIn.kind = "w" -> KthWord(StrOf(dIn.v), DigitVal(dIn.ks[1][1]))
                        [] dIn.kind = "ch" -> KthChar(StrOf(dIn.v), DigitVal(dIn.ks[1][1]))
                        [] dIn.kind = "list" -> ListedChars(StrOf(dIn.v), dIn.ks))

\* the characters of t at the positions A..B that t has, in order
RangeChars(t, A, B) == SelectSeq([p \in 1..Len(t) |-> IF A <= p /\ p <= B THEN <<t[p]>> ELSE <<>>],
                                LAMBDA c : c # <<>>)

\* C23: for every text v and all integers A and B, n[chA-B] is the characters
\* of v at the 1-indexed positions p with A <= p <= B and 1 <= p <= Len(v), in
\* order, and empty when there is no such position.
C23_RangeExtraction ==
    (Evaluated /\ dIn.kind = "range" /\ dIn.v.k = "str" /\ ~IsInlineImage(dIn.v)
       /\ IndexOfPiece(dIn.ks[1]) # <<>> /\ IndexOfPiece(dIn.ks[2]) # <<>>)
        => dOut = Str(Concat(RangeChars(StrOf(dIn.v), IndexOfPiece(dIn.ks[1])[1],
                                        IndexOfPiece(dIn.ks[2])[1])))

====
